---- MODULE Spec2Model ----
(***************************************************************************)
(* jlox: a tree-walking Lox interpreter (scanner -> parser -> resolver ->  *)
(* evaluator).  The module models the driver (main.rs) running parsed      *)
(* sources against one Interpreter, the Resolver, the Interpreter, and the *)
(* runtime object model (Environment, LoxFunction, Class, Instance,        *)
(* Token).  Heap objects behind Rc<RefCell<..>> are entries of the         *)
(* sequences envs / instances / classes and are named by their index.      *)
(***************************************************************************)
EXTENDS Integers, Sequences, FiniteSets, TLC

VARIABLES
    envs,         \* heap of Environment { values, enclosing }
    instances,    \* heap of Instance { klass, fields }
    classes,      \* heap of Class { name, superclass, methods }
    locals,       \* Interpreter.locals : HashMap<Token, usize>
    environment,  \* Interpreter.environment (index into envs)
    output,       \* lines written to stdout by print
    log,          \* events of the last run (observation only)
    resolved,     \* what the resolver decided for each variable-use occurrence
    status,       \* "start" | "prompt" | "file" | "exited" | "crashed"; with the
                  \* scanner alone: "scanning" | "scanned"; with the parser
                  \* alone: "parsing" | "parsed" | "failed"
    exit_code,    \* process exit code once status is "exited" or "crashed"
    runs,         \* indices of the sources given to Lox::run so far
    result,       \* how the last run ended: [res, err]
    scanner,      \* the Scanner, when the scanner is run alone
    parser        \* the Parser, when the parser is run alone

vars == <<envs, instances, classes, locals, environment, output, log,
          resolved, status, exit_code, runs, result, scanner, parser>>

-----------------------------------------------------------------------------
(* Bounds of the model *)

MaxRuns == 2        \* sources read by the prompt loop in one session
MaxFuel == 80       \* statements + expressions evaluated in one run
ClockMillis == 7    \* the value the native clock() reads
MaxLine == 3        \* source lines a token may be on
MaxSource == 3      \* bytes of a source given to the scanner alone
MaxTokens == 3      \* words of a text given to the parser alone

-----------------------------------------------------------------------------
(* Finite maps (HashMap<String, _>) as functions over their key set *)

EmptyMap == <<>>

Put(m, k, v) == [x \in (DOMAIN m) \cup {k} |-> IF x = k THEN v ELSE m[x]]

Has(m, k) == k \in DOMAIN m

-----------------------------------------------------------------------------
(* token.rs *)

Token(tt, lex, lit, ln) ==
    [token_type |-> tt, lexeme |-> lex, literal |-> lit, line |-> ln]

\* An equality that leaves the line out.
Token_eq_ignoring_line(a, b) ==
    /\ a.token_type = b.token_type
    /\ a.lexeme = b.lexeme
    /\ a.literal = b.literal

\* #[derive(PartialEq)] on Token: every field takes part.
Token_eq(a, b) ==
    /\ a.token_type = b.token_type
    /\ a.lexeme = b.lexeme
    /\ a.literal = b.literal
    /\ a.line = b.line

\* impl Hash for Token: token_type and lexeme only.
Token_hash(a) == <<a.token_type, a.lexeme>>

\* HashMap<Token, usize>: a set of (key, depth) entries; a key is found by
\* an entry with the same hash that compares equal.
HashMap_find(m, k) ==
    {e \in m : Token_hash(e.key) = Token_hash(k) /\ Token_eq(e.key, k)}

HashMap_contains(m, k) == HashMap_find(m, k) # {}

HashMap_get(m, k) == (CHOOSE e \in HashMap_find(m, k) : TRUE).depth

HashMap_insert(m, k, d) ==
    LET old == HashMap_find(m, k) IN
    IF old = {} THEN m \cup {[key |-> k, depth |-> d]}
    ELSE (m \ old) \cup {[key |-> (CHOOSE e \in old : TRUE).key, depth |-> d]}

-----------------------------------------------------------------------------
(* object.rs *)

Nil == [t |-> "Nil"]
Bool(b) == [t |-> "Bool", b |-> b]
Number(n) == [t |-> "Number", n |-> n]
String(s) == [t |-> "String", s |-> s]
Function(f) == [t |-> "Function", f |-> f]
ClassObj(c) == [t |-> "Class", ref |-> c]
InstanceObj(i) == [t |-> "Instance", ref |-> i]

Clock == [kind |-> "Clock"]

\* impl PartialEq for Object
Object_eq(a, b) ==
    CASE a.t = "Nil" /\ b.t = "Nil" -> TRUE
      [] a.t = "Number" /\ b.t = "Number" -> a.n = b.n
      [] a.t = "Bool" /\ b.t = "Bool" -> a.b = b.b
      [] a.t = "String" /\ b.t = "String" -> a.s = b.s
      [] OTHER -> FALSE

\* Object::is_truthy
is_truthy(o) ==
    CASE o.t = "Nil" -> FALSE
      [] o.t = "Bool" -> o.b
      [] OTHER -> TRUE

-----------------------------------------------------------------------------
(* environment.rs.  An operation takes the heap and the index of the       *)
(* receiver; a Result is [ok, val, err] (get) or [ok, envs, err] (assign). *)

Environment_new(enclosing) == [values |-> EmptyMap, enclosing |-> enclosing]

Environment_define(h, e, name, value) ==
    [h EXCEPT ![e].values = Put(h[e].values, name, value)]

RECURSIVE Environment_get(_, _, _)
Environment_get(h, e, name) ==
    IF Has(h[e].values, name)
    THEN [ok |-> TRUE, val |-> h[e].values[name], err |-> "none"]
    ELSE IF h[e].enclosing # 0
    THEN Environment_get(h, h[e].enclosing, name)
    ELSE [ok |-> FALSE, val |-> Nil, err |-> "UndefinedVariable"]

RECURSIVE Environment_assign(_, _, _, _)
Environment_assign(h, e, name, value) ==
    IF Has(h[e].values, name.lexeme)
    THEN [ok |-> TRUE, envs |-> [h EXCEPT ![e].values = Put(h[e].values, name.lexeme, value)],
          err |-> "none"]
    ELSE IF h[e].enclosing # 0
    THEN Environment_assign(h, h[e].enclosing, name, value)
    ELSE [ok |-> FALSE, envs |-> h, err |-> "UndefinedVariable"]

RECURSIVE ancestor_walk(_, _, _)
\* the loop `for _ in 1..distance` of ancestor, n iterations left
ancestor_walk(h, env, n) ==
    IF n = 0 THEN [ok |-> TRUE, env |-> env, err |-> "none"]
    ELSE IF h[env].enclosing # 0
    THEN ancestor_walk(h, h[env].enclosing, n - 1)
    ELSE [ok |-> FALSE, env |-> 0, err |-> "EnclosingError"]

Environment_ancestor(h, e, distance) ==
    IF h[e].enclosing # 0
    THEN ancestor_walk(h, h[e].enclosing, IF distance > 1 THEN distance - 1 ELSE 0)
    ELSE [ok |-> FALSE, env |-> 0, err |-> "EnclosingError"]

Environment_get_at(h, e, distance, name) ==
    IF distance = 0 THEN Environment_get(h, e, name)
    ELSE LET a == Environment_ancestor(h, e, distance) IN
         IF a.ok THEN Environment_get(h, a.env, name)
         ELSE [ok |-> FALSE, val |-> Nil, err |-> a.err]

Environment_assign_at(h, e, distance, name, value) ==
    IF distance = 0 THEN Environment_assign(h, e, name, value)
    ELSE LET a == Environment_ancestor(h, e, distance) IN
         IF a.ok THEN Environment_assign(h, a.env, name, value)
         ELSE [ok |-> FALSE, envs |-> h, err |-> a.err]

\* The environment exactly `distance` parent hops above e (0 when the chain
\* is shorter): the place a distance names, used to observe get_at/assign_at.
RECURSIVE Hops(_, _, _)
Hops(h, e, distance) ==
    IF distance = 0 THEN e
    ELSE IF h[e].enclosing = 0 THEN 0
    ELSE Hops(h, h[e].enclosing, distance - 1)

Defines(h, e, name) == e # 0 /\ Has(h[e].values, name)

-----------------------------------------------------------------------------
(* ast.rs.  Option<T> is a sequence of length 0 or 1.  A node that uses a   *)
(* variable (Variable, Assign, This, Super) carries `id`, the identity of   *)
(* the occurrence in the source text; no operation of the program reads it. *)

Variable(name, id) == [k |-> "Variable", name |-> name, id |-> id]
Assign(name, value, id) == [k |-> "Assign", name |-> name, value |-> value, id |-> id]
Binary(left, op, right) == [k |-> "Binary", left |-> left, op |-> op, right |-> right]
Call(callee, arguments) == [k |-> "Call", callee |-> callee, arguments |-> arguments]
Get(object, name) == [k |-> "Get", object |-> object, name |-> name]
Grouping(ex) == [k |-> "Grouping", ex |-> ex]
Literal(v) == [k |-> "Literal", value |-> v]
Logical(left, op, right) == [k |-> "Logical", left |-> left, op |-> op, right |-> right]
Set(object, name, value) == [k |-> "Set", object |-> object, name |-> name, value |-> value]
Super(keyword, method, id) == [k |-> "Super", keyword |-> keyword, method |-> method, id |-> id]
This(keyword, id) == [k |-> "This", keyword |-> keyword, id |-> id]
Unary(op, right) == [k |-> "Unary", op |-> op, right |-> right]

BlockStmt(statements) == [k |-> "Block", statements |-> statements]
ClassStmt(name, superclass, methods) ==
    [k |-> "Class", name |-> name, superclass |-> superclass, methods |-> methods]
ExpressionStmt(expr) == [k |-> "Expression", expr |-> expr]
FunctionStmt(name, params, body) ==
    [k |-> "Function", name |-> name, params |-> params, body |-> body]
IfStmt(condition, then_branch, else_branch) ==
    [k |-> "If", condition |-> condition, then_branch |-> then_branch,
     else_branch |-> else_branch]
PrintStmt(expr) == [k |-> "Print", expr |-> expr]
ReturnStmt(keyword, value) == [k |-> "Return", keyword |-> keyword, value |-> value]
VarStmt(name, initializer) == [k |-> "Var", name |-> name, initializer |-> initializer]
WhileStmt(condition, body) == [k |-> "While", condition |-> condition, body |-> body]

-----------------------------------------------------------------------------
(* resolver.rs.  R is the Resolver together with the part of the           *)
(* Interpreter it writes (locals):                                         *)
(*   [scopes, current_fn, current_class, locals, log, resolved, res, err]  *)
(* and nesting, the declarations the resolver is inside of, outermost      *)
(* first: "Class", "SubClass" (a class with a superclass) or "fn" (a       *)
(* function or method body); observation only.                             *)
(* res is "Ok", "Err" (err names the Error variant) or "Panic".            *)

Ok(X) == X.res = "Ok"

Fail(X, e) == [X EXCEPT !.res = "Err", !.err = e]

Panic(X, e) == [X EXCEPT !.res = "Panic", !.err = e]

Event(X, ev) == [X EXCEPT !.log = Append(X.log, ev)]

\* `let x = v;` followed by the rest of the function: v is evaluated here,
\* before the rest, as the statement is
Let(v, rest(_)) == IF v = v THEN rest(v) ELSE rest(v)

\* `let x = v?;`: an Err (or a panic) ends the function, Ok goes on
Try(X, rest(_)) == IF X.res = "Ok" THEN rest(X) ELSE X

Resolver_new(I) ==
    [scopes |-> <<>>, current_fn |-> "None", current_class |-> "None",
     locals |-> I.locals, log |-> I.log, resolved |-> I.resolved,
     nesting |-> <<>>, res |-> "Ok", err |-> "none"]

begin_scope(R) == [R EXCEPT !.scopes = Append(R.scopes, EmptyMap)]

end_scope(R) ==
    IF Len(R.scopes) = 0 THEN Panic(R, "Popped an empty scopes stack")
    ELSE Event([R EXCEPT !.scopes = SubSeq(R.scopes, 1, Len(R.scopes) - 1)],
               [op |-> "end_scope", depth |-> Len(R.scopes)])

\* scopes.last_mut().unwrap().insert(name, flag)
scope_insert(R, name, flag) ==
    [R EXCEPT !.scopes[Len(R.scopes)] = Put(R.scopes[Len(R.scopes)], name, flag)]

\* ghost: a declaration, the number of open scopes and how it ended
declare_event(R, name, after) ==
    [op |-> "declare", name |-> name.lexeme, depth |-> Len(R.scopes),
     outcome |-> IF Ok(after) THEN "Ok" ELSE after.err]

\* declare without the contains_key test: the later declaration wins
declare_shadowing(R, name) ==
    Let(IF Len(R.scopes) = 0 THEN R ELSE scope_insert(R, name.lexeme, FALSE),
        LAMBDA R1 : Event(R1, declare_event(R, name, R1)))

declare(R, name) ==
    Let(IF Len(R.scopes) = 0 THEN R
        ELSE IF Has(R.scopes[Len(R.scopes)], name.lexeme) THEN Fail(R, "DoubleVariable")
        ELSE scope_insert(R, name.lexeme, FALSE),
        LAMBDA R1 : Event(R1, declare_event(R, name, R1)))

Resolver_define(R, name) ==
    IF Len(R.scopes) = 0 THEN R
    ELSE scope_insert(R, name.lexeme, TRUE)

\* Interpreter::resolve
Interpreter_resolve(m, name, depth) == HashMap_insert(m, name, depth)

Min(S) == CHOOSE x \in S : \A y \in S : x <= y

\* the scopes (1 = outermost) that hold the name
Holding(scopes, lexeme) == {i \in 1..Len(scopes) : Has(scopes[i], lexeme)}

\* `for (i, scope) in self.scopes.iter().enumerate()`: the first scope in
\* iteration order that holds the name decides; the model's index is i + 1.
resolve_local(R, name, id) ==
    LET hit == Holding(R.scopes, name.lexeme) IN
    IF hit = {}
    THEN Event([R EXCEPT !.resolved = Put(R.resolved, id, -1)],
               [op |-> "resolve_local", id |-> id, name |-> name, found |-> FALSE,
                depth |-> -1, scopes |-> R.scopes])
    ELSE LET depth == Len(R.scopes) - Min(hit) IN
         Event([R EXCEPT !.locals = Interpreter_resolve(R.locals, name, depth),
                         !.resolved = Put(R.resolved, id, depth)],
               [op |-> "resolve_local", id |-> id, name |-> name, found |-> TRUE,
                depth |-> depth, scopes |-> R.scopes])

Resolver_visit_variable_expr(R, e) ==
    LET ev(outcome) == [op |-> "visit_variable_expr", name |-> e.name,
                        scopes |-> R.scopes, outcome |-> outcome] IN
    IF Len(R.scopes) # 0 /\ ~Has(R.scopes[Len(R.scopes)], e.name.lexeme)
    THEN Panic(Event(R, ev("Panic")), "called Option::unwrap() on a None value")
    ELSE IF Len(R.scopes) # 0 /\ ~R.scopes[Len(R.scopes)][e.name.lexeme]
    THEN Fail(Event(R, ev("ReadInitializer")), "ReadInitializer")
    ELSE resolve_local(Event(R, ev("Ok")), e.name, e.id)

\* what a visit of `this`, `super` or `return` met and how it ended
visit_event(R, op, after) ==
    [op |-> op, nesting |-> R.nesting, current_class |-> R.current_class,
     current_fn |-> R.current_fn, outcome |-> IF Ok(after) THEN "Ok" ELSE after.err]

Resolver_visit_super_expr(R, e) ==
    Let(IF R.current_class = "None" THEN Fail(R, "SuperOutsideClass")
        ELSE IF R.current_class # "SubClass" THEN Fail(R, "SuperNoSubClass")
        ELSE resolve_local(R, e.keyword, e.id), LAMBDA R1 :
        Event(R1, visit_event(R, "visit_super_expr", R1)))

Resolver_visit_this_expr(R, e) ==
    Let(IF R.current_class = "None" THEN Fail(R, "ThisOutsideClass")
        ELSE resolve_local(R, e.keyword, e.id), LAMBDA R1 :
        Event(R1, visit_event(R, "visit_this_expr", R1)))

RECURSIVE Resolver_evaluate(_, _)
RECURSIVE Resolver_execute(_, _)
RECURSIVE Resolver_resolve(_, _, _)
RECURSIVE resolve_arguments(_, _, _)
RECURSIVE resolve_params(_, _, _)
RECURSIVE resolve_methods(_, _, _, _)
RECURSIVE resolve_function(_, _, _, _)

\* ExprVisitor::evaluate for the Resolver (resolve_expr)
Resolver_evaluate(R, e) ==
    IF e.k = "Variable" THEN Resolver_visit_variable_expr(R, e)
    ELSE IF e.k = "Assign" THEN
        Try(Resolver_evaluate(R, e.value), LAMBDA R1 : resolve_local(R1, e.name, e.id))
    ELSE IF e.k \in {"Binary", "Logical"} THEN
        Try(Resolver_evaluate(R, e.left), LAMBDA R1 : Resolver_evaluate(R1, e.right))
    ELSE IF e.k = "Call" THEN
        Try(Resolver_evaluate(R, e.callee), LAMBDA R1 : resolve_arguments(R1, e.arguments, 1))
    ELSE IF e.k = "Get" THEN Resolver_evaluate(R, e.object)
    ELSE IF e.k = "Grouping" THEN Resolver_evaluate(R, e.ex)
    ELSE IF e.k = "Literal" THEN R
    ELSE IF e.k = "Set" THEN
        Try(Resolver_evaluate(R, e.value), LAMBDA R1 : Resolver_evaluate(R1, e.object))
    ELSE IF e.k = "Super" THEN Resolver_visit_super_expr(R, e)
    ELSE IF e.k = "This" THEN Resolver_visit_this_expr(R, e)
    ELSE Resolver_evaluate(R, e.right)   \* Unary

\* visit_call_expr: `for argument in arguments { resolve_expr(argument)? }`
resolve_arguments(R, arguments, i) ==
    IF i > Len(arguments) THEN R
    ELSE Try(Resolver_evaluate(R, arguments[i]),
             LAMBDA R1 : resolve_arguments(R1, arguments, i + 1))

\* Resolver::resolve, from statement i on
Resolver_resolve(R, statements, i) ==
    IF i > Len(statements) THEN R
    ELSE Try(Resolver_execute(R, statements[i]),
             LAMBDA R1 : Resolver_resolve(R1, statements, i + 1))

\* resolve_function: `for param in params { declare(param)?; define(param) }`
resolve_params(R, params, i) ==
    IF i > Len(params) THEN R
    ELSE Try(declare(R, params[i]),
             LAMBDA R1 : resolve_params(Resolver_define(R1, params[i]), params, i + 1))

\* the resolver inside a function or method body
inside_fn(R) == [R EXCEPT !.nesting = Append(R.nesting, "fn")]

\* resolve_function without `self.current_fn = enclosing_function`
resolve_function_keeping_fn(R, params, body, fn_type) ==
    Try(resolve_params(begin_scope([inside_fn(R) EXCEPT !.current_fn = fn_type]),
                       params, 1), LAMBDA R2 :
    Try(Resolver_resolve(R2, body, 1), LAMBDA R3 :
    Try(end_scope(R3), LAMBDA R4 :
        [R4 EXCEPT !.nesting = R.nesting])))

resolve_function(R, params, body, fn_type) ==
    Try(resolve_params(begin_scope([inside_fn(R) EXCEPT !.current_fn = fn_type]),
                       params, 1), LAMBDA R2 :
    Try(Resolver_resolve(R2, body, 1), LAMBDA R3 :
    Try(end_scope(R3), LAMBDA R4 :
        [R4 EXCEPT !.current_fn = R.current_fn,    \* enclosing_function
                   !.nesting = R.nesting])))

\* visit_class_stmt: the loop over methods; `name` is the class's name
resolve_methods(R, name, methods, i) ==
    IF i > Len(methods) THEN R
    ELSE LET declaration == IF name.lexeme = "init" THEN "Initializer" ELSE "Method"
             method == methods[i]
         IN  IF method.k # "Function" THEN Fail(R, "MethodStmtNotFunction")
             ELSE Try(resolve_function(Event(R, [op |-> "resolve_method",
                                                 class |-> name.lexeme,
                                                 method |-> method.name.lexeme,
                                                 declaration |-> declaration]),
                                       method.params, method.body, declaration),
                      LAMBDA R1 : resolve_methods(R1, name, methods, i + 1))

\* visit_class_stmt, `if let Some(sclass) = superclass`: the bootstrap
\* check, the resolution of the superclass and the scope holding "super"
resolve_superclass(R, s) ==
    IF Len(s.superclass) = 0 THEN R
    ELSE IF s.superclass[1].k = "Variable"
            /\ s.superclass[1].name.lexeme = s.name.lexeme
    THEN Fail(R, "ClassBootstrap")
    ELSE Try(Resolver_evaluate([R EXCEPT !.current_class = "SubClass"], s.superclass[1]),
             LAMBDA R3 : scope_insert(begin_scope(R3), "super", TRUE))

\* the resolver inside the declaration of s
inside_class(R, s) ==
    [R EXCEPT !.nesting = Append(R.nesting,
                                 IF Len(s.superclass) = 1 THEN "SubClass" ELSE "Class")]

\* visit_class_stmt without `self.current_class = enclosing_class`
Resolver_visit_class_stmt_keeping_class(R, s) ==
    Try(declare([inside_class(R, s) EXCEPT !.current_class = "Class"], s.name),
        LAMBDA R1 :
    Try(resolve_superclass(Resolver_define(R1, s.name), s), LAMBDA R4 :
    Try(resolve_methods(scope_insert(begin_scope(R4), "this", TRUE), s.name, s.methods, 1),
        LAMBDA R6 :
    Try(end_scope(R6), LAMBDA R7 :
    Try(IF Len(s.superclass) = 1 THEN end_scope(R7) ELSE R7, LAMBDA R8 :
        [R8 EXCEPT !.nesting = R.nesting])))))

Resolver_visit_class_stmt(R, s) ==
    Try(declare([inside_class(R, s) EXCEPT !.current_class = "Class"], s.name),
        LAMBDA R1 :
    Try(resolve_superclass(Resolver_define(R1, s.name), s), LAMBDA R4 :
    Try(resolve_methods(scope_insert(begin_scope(R4), "this", TRUE), s.name, s.methods, 1),
        LAMBDA R6 :
    Try(end_scope(R6), LAMBDA R7 :
    Try(IF Len(s.superclass) = 1 THEN end_scope(R7) ELSE R7, LAMBDA R8 :
        [R8 EXCEPT !.current_class = R.current_class,    \* enclosing_class
                   !.nesting = R.nesting])))))

Resolver_visit_var_stmt(R, s) ==
    Try(declare(R, s.name), LAMBDA R1 :
    Try(IF Len(s.initializer) = 1 THEN Resolver_evaluate(R1, s.initializer[1]) ELSE R1,
        LAMBDA R2 : Resolver_define(R2, s.name)))

Resolver_visit_function_stmt(R, s) ==
    Try(declare(R, s.name), LAMBDA R1 :
        resolve_function(Resolver_define(R1, s.name), s.params, s.body, "Function"))

Resolver_visit_return_stmt(R, s) ==
    Let(IF R.current_fn = "None" THEN Fail(R, "BadReturn")
        ELSE IF Len(s.value) = 1 THEN
            IF R.current_fn = "Initializer" THEN Fail(R, "ReturnInitializer")
            ELSE Resolver_evaluate(R, s.value[1])
        ELSE R, LAMBDA R1 :
        Event(R1, visit_event(R, "visit_return_stmt", R1)))

\* StmtVisitor::execute for the Resolver (resolve_stmt)
Resolver_execute(R, s) ==
    IF s.k = "Block" THEN
        Try(Resolver_resolve(begin_scope(R), s.statements, 1), LAMBDA R1 : end_scope(R1))
    ELSE IF s.k = "Class" THEN Resolver_visit_class_stmt(R, s)
    ELSE IF s.k = "Var" THEN Resolver_visit_var_stmt(R, s)
    ELSE IF s.k = "Function" THEN Resolver_visit_function_stmt(R, s)
    ELSE IF s.k \in {"Expression", "Print"} THEN Resolver_evaluate(R, s.expr)
    ELSE IF s.k = "If" THEN
        Try(Resolver_evaluate(R, s.condition), LAMBDA R1 :
        Try(Resolver_execute(R1, s.then_branch), LAMBDA R2 :
            IF Len(s.else_branch) = 1 THEN Resolver_execute(R2, s.else_branch[1])
            ELSE R2))
    ELSE IF s.k = "Return" THEN Resolver_visit_return_stmt(R, s)
    ELSE \* While
        Try(Resolver_evaluate(R, s.condition), LAMBDA R1 : Resolver_execute(R1, s.body))

-----------------------------------------------------------------------------
(* class.rs / functions.rs: values *)

\* LoxFunction::new
LoxFunction(name, closure, params, body, is_initializer) ==
    [kind |-> "LoxFunction", name |-> name, closure |-> closure, params |-> params,
     body |-> body, is_initializer |-> is_initializer]

\* Class::new
Class_new(name, superclass, methods) ==
    [name |-> name, superclass |-> superclass, methods |-> methods]

\* Instance::new
Instance_new(klass) == [klass |-> klass, fields |-> EmptyMap]

\* Class::find_method: [found, method]
RECURSIVE find_method(_, _, _)
find_method(cs, c, name) ==
    IF Has(cs[c].methods, name) THEN [found |-> TRUE, method |-> cs[c].methods[name]]
    ELSE IF cs[c].superclass # 0 THEN find_method(cs, cs[c].superclass, name)
    ELSE [found |-> FALSE, method |-> Clock]

\* LoxFunction::arity, Clock::arity
Callable_arity(f) == IF f.kind = "Clock" THEN 0 ELSE Len(f.params)

\* Class::arity
Class_arity(cs, c) ==
    LET initializer == find_method(cs, c, "init") IN
    IF initializer.found THEN Callable_arity(initializer.method) ELSE 0

-----------------------------------------------------------------------------
(* interpreter.rs.  I is the Interpreter with the heaps it reaches:        *)
(*   [envs, instances, classes, locals, environment, output, log,          *)
(*    resolved, fuel, res, err, val]                                        *)
(* res is "Ok", "Err" (err names the Error variant; Error::Return carries  *)
(* val), "Panic", or "Beyond" when the run leaves the bounds of the model. *)
(* val is the value of the last expression evaluated.                      *)

Globals == 1

\* Interpreter::new
Interpreter_new ==
    [envs |-> <<[values |-> Put(EmptyMap, "clock", Function(Clock)), enclosing |-> 0]>>,
     instances |-> <<>>, classes |-> <<>>, locals |-> {}, environment |-> Globals,
     output |-> <<>>, log |-> <<>>, resolved |-> EmptyMap, fuel |-> MaxFuel,
     res |-> "Ok", err |-> "none", val |-> Nil]

Value(I, v) == [I EXCEPT !.val = v]

Beyond(I, why) == [I EXCEPT !.res = "Beyond", !.err = why]

\* Rc::new(RefCell::new(Environment::new(Some(enclosing)))): the new
\* environment gets index Len(envs) + 1
alloc_env(I, enclosing) == [I EXCEPT !.envs = Append(I.envs, Environment_new(enclosing))]

\* impl Debug for Object (derived), as written by println!("{value:?}");
\* a Number holds an integral f64, printed with one fractional digit
Debug_fmt(I, o) ==
    CASE o.t = "Nil" -> "Nil"
      [] o.t = "Bool" -> IF o.b THEN "Bool(true)" ELSE "Bool(false)"
      [] o.t = "Number" -> "Number(" \o ToString(o.n) \o ".0)"
      [] o.t = "String" -> "String(\"" \o o.s \o "\")"
      [] o.t = "Function" -> "Function(<lox function>)"
      [] o.t = "Class" ->
            "Class(RefCell { value: Class { name: \"" \o I.classes[o.ref].name \o "\", .. } })"
      [] OTHER -> "Instance(RefCell { value: Instance { .. } })"

\* impl Display for Object, with Display for Class and for Instance; a
\* Number holds an integral f64, which `{}` writes without fraction
Display_fmt(I, o) ==
    CASE o.t = "Nil" -> "nil"
      [] o.t = "Bool" -> IF o.b THEN "true" ELSE "false"
      [] o.t = "Number" -> ToString(o.n)
      [] o.t = "String" -> o.s
      [] o.t = "Function" -> "<lox function>"
      [] o.t = "Class" -> I.classes[o.ref].name
      [] OTHER -> I.classes[I.instances[o.ref].klass].name \o " instance"

\* LoxFunction::bind: [I, f] with the heap holding the new environment
LoxFunction_bind(I, f, instance) ==
    LET env == Len(I.envs) + 1
        I1 == alloc_env(I, f.closure)
    IN  [I |-> [I1 EXCEPT !.envs = Environment_define(I1.envs, env, "this",
                                                     InstanceObj(instance))],
         f |-> LoxFunction(f.name, env, f.params, f.body, f.is_initializer)]

\* Instance::get on the instance at index inst
Instance_get(I, inst, name) ==
    LET self == I.instances[inst]
        m == find_method(I.classes, self.klass, name.lexeme)
        copy == Len(I.instances) + 1    \* Rc::new(RefCell::new(self.clone()))
        b == LoxFunction_bind([I EXCEPT !.instances = Append(I.instances, self)],
                              m.method, copy)
    IN  IF Has(self.fields, name.lexeme) THEN Value(I, self.fields[name.lexeme])
        ELSE IF m.found
        THEN Value(Event(b.I, [op |-> "Instance_get", receiver |-> inst,
                               name |-> name.lexeme, this |-> copy]),
                   Function(b.f))
        ELSE Fail(I, "UndefinedProperty")

\* Instance::set
Instance_set(I, inst, name, value) ==
    [I EXCEPT !.instances[inst].fields = Put(I.instances[inst].fields, name.lexeme, value)]

\* the environment, from e upwards, whose own map holds the name (0 when
\* none does): where the walk of Environment::get / assign ends
RECURSIVE Holder(_, _, _)
Holder(h, e, name) ==
    IF e = 0 THEN 0
    ELSE IF Has(h[e].values, name) THEN e
    ELSE Holder(h, h[e].enclosing, name)

\* what is observed of one evaluation of a variable use: the distance the
\* Interpreter found in locals (local, distance), the environment that
\* distance names (target) and whether it holds the name itself (direct),
\* the environment whose binding is read or written (found_in), and the
\* distance the Resolver computed for this occurrence (assigned, -1 for
\* none) with the environment it names (assigned_target)
use_event(I, op, name, id, local, distance, ok) ==
    LET target == IF local THEN Hops(I.envs, I.environment, distance) ELSE Globals
        assigned == IF Has(I.resolved, id) THEN I.resolved[id] ELSE -1
    IN  [op |-> op, id |-> id, name |-> name, local |-> local, distance |-> distance,
         env |-> I.environment, target |-> target,
         direct |-> Defines(I.envs, target, name.lexeme),
         found_in |-> Holder(I.envs, target, name.lexeme),
         assigned |-> assigned,
         assigned_target |-> IF assigned >= 0
                             THEN Hops(I.envs, I.environment, assigned) ELSE Globals,
         ok |-> ok]

\* Interpreter::look_up_variable
look_up_variable(I, name, id) ==
    IF HashMap_contains(I.locals, name)
    THEN LET distance == HashMap_get(I.locals, name)
             r == Environment_get_at(I.envs, I.environment, distance, name.lexeme)
             I1 == Event(I, use_event(I, "look_up_variable", name, id, TRUE, distance, r.ok))
         IN  IF r.ok THEN Value(I1, r.val) ELSE Fail(I1, "EnvironmentError")
    ELSE LET r == Environment_get(I.envs, Globals, name.lexeme)
             I1 == Event(I, use_event(I, "look_up_variable", name, id, FALSE, -1, r.ok))
         IN  IF r.ok THEN Value(I1, r.val) ELSE Fail(I1, "EnvironmentError")

\* the part of visit_assign_expr after the value is evaluated
assign_variable(I, name, id, val) ==
    IF HashMap_contains(I.locals, name)
    THEN LET distance == HashMap_get(I.locals, name)
             r == Environment_assign_at(I.envs, I.environment, distance, name, val)
             I1 == Event(I, use_event(I, "assign", name, id, TRUE, distance, r.ok))
         IN  IF r.ok THEN Value([I1 EXCEPT !.envs = r.envs], val)
             ELSE Fail(I1, "EnvironmentError")
    ELSE LET r == Environment_assign(I.envs, Globals, name, val)
             I1 == Event(I, use_event(I, "assign", name, id, FALSE, -1, r.ok))
         IN  IF r.ok THEN Value([I1 EXCEPT !.envs = r.envs], val)
             ELSE Fail(I1, "EnvironmentError")

\* the match on op.token_type of visit_binary_expr, both operands evaluated
binary_op(I, l, op, r) ==
    LET num(x) == x.t = "Number"
        NaN == Fail(I, "NaN")
        tt == op.token_type
    IN  IF tt = "Minus" THEN
            IF num(l) /\ num(r) THEN Value(I, Number(l.n - r.n)) ELSE NaN
        ELSE IF tt = "Slash" THEN
            IF ~num(r) THEN NaN
            ELSE IF r.n = 0 THEN Fail(I, "ZeroDivision")
            ELSE IF ~num(l) THEN NaN
            ELSE IF l.n % r.n # 0 THEN Beyond(I, "fractional quotient")
            ELSE Value(I, Number(l.n \div r.n))
        ELSE IF tt = "Star" THEN
            IF num(l) /\ num(r) THEN Value(I, Number(l.n * r.n)) ELSE NaN
        ELSE IF tt = "Plus" THEN
            IF num(l) /\ num(r) THEN Value(I, Number(l.n + r.n))
            ELSE IF l.t = "String" /\ r.t = "String" THEN Value(I, String(l.s \o r.s))
            ELSE Fail(I, "UnsupportedAddOp")
        ELSE IF tt = "Greater" THEN
            IF num(l) /\ num(r) THEN Value(I, Bool(l.n > r.n)) ELSE NaN
        ELSE IF tt = "GreaterEqual" THEN
            IF num(l) /\ num(r) THEN Value(I, Bool(l.n >= r.n)) ELSE NaN
        ELSE IF tt = "Less" THEN
            IF num(l) /\ num(r) THEN Value(I, Bool(l.n < r.n)) ELSE NaN
        ELSE IF tt = "LessEqual" THEN
            IF num(l) /\ num(r) THEN Value(I, Bool(l.n <= r.n)) ELSE NaN
        ELSE IF tt = "BangEqual" THEN Value(I, Bool(~Object_eq(l, r)))
        ELSE IF tt = "EqualEqual" THEN Value(I, Bool(Object_eq(l, r)))
        ELSE Fail(I, "UnsupportedBinaryOp")

\* LoxFunction::call: `for (i, arg) in arguments { define(params[i], arg) }`
RECURSIVE define_params(_, _, _, _, _)
define_params(h, env, params, arguments, i) ==
    IF i > Len(arguments) THEN h
    ELSE define_params(Environment_define(h, env, params[i], arguments[i]),
                       env, params, arguments, i + 1)

RECURSIVE Interpreter_evaluate(_, _)
RECURSIVE Interpreter_execute(_, _)
RECURSIVE execute_statements(_, _, _)
RECURSIVE evaluate_arguments(_, _, _, _)
RECURSIVE visit_while_stmt(_, _)

\* `for stmt in statements { self.execute(stmt)? }` from statement i on
\* (the loops of interpret and execute_block)
execute_statements(I, statements, i) ==
    IF i > Len(statements) THEN I
    ELSE Try(Interpreter_execute(I, statements[i]),
             LAMBDA I1 : execute_statements(I1, statements, i + 1))

\* Interpreter::interpret
interpret(I, statements) == execute_statements(I, statements, 1)

\* what is observed of one execute_block: the environment before the call,
\* the one the statements ran in, the one current after the call
block_event(I1, I2, previous, env) ==
    [op |-> "execute_block", previous |-> previous, entered |-> env,
     after |-> I2.environment, outcome |-> IF Ok(I1) THEN "Ok" ELSE I1.err]

\* execute_block that puts the previous environment back on normal exit only
execute_block_restoring_on_ok_only(I, statements, env) ==
    Let(execute_statements([I EXCEPT !.environment = env], statements, 1), LAMBDA I1 :
        IF I1.res \in {"Panic", "Beyond"} THEN I1
        ELSE Let(IF Ok(I1) THEN [I1 EXCEPT !.environment = I.environment] ELSE I1,
                 LAMBDA I2 : Event(I2, block_event(I1, I2, I.environment, env))))

\* Interpreter::execute_block
execute_block(I, statements, env) ==
    Let(execute_statements([I EXCEPT !.environment = env], statements, 1), LAMBDA I1 :
        IF I1.res \in {"Panic", "Beyond"} THEN I1
        ELSE Let([I1 EXCEPT !.environment = I.environment],   \* previous
                 LAMBDA I2 : Event(I2, block_event(I1, I2, I.environment, env))))

\* the match of LoxFunction::call that hands a Return's value to the caller
\* whatever the function is
call_result_returning_value(f, this, returned, value) ==
    IF returned THEN [ok |-> TRUE, val |-> value, err |-> "none"]
    ELSE IF f.is_initializer THEN this
    ELSE [ok |-> TRUE, val |-> Nil, err |-> "none"]

\* the match of LoxFunction::call on the outcome of the body: `this` is
\* closure.get_at(0, "this"), returned tells Err(Return { value }) from Ok
call_result(f, this, returned, value) ==
    IF f.is_initializer THEN this
    ELSE IF returned THEN [ok |-> TRUE, val |-> value, err |-> "none"]
    ELSE [ok |-> TRUE, val |-> Nil, err |-> "none"]

\* LoxFunction::call
LoxFunction_call(I, f, arguments) ==
    IF Len(arguments) > Len(f.params) THEN Panic(I, "index out of bounds")
    ELSE
    Let(Len(I.envs) + 1, LAMBDA env :
    Let(alloc_env(I, f.closure), LAMBDA I1 :
    Let(execute_block([I1 EXCEPT !.envs = define_params(I1.envs, env, f.params,
                                                        arguments, 1)],
                      f.body, env), LAMBDA I3 :
    Let(I3.res = "Err" /\ I3.err = "Return", LAMBDA returned :
    Let(Environment_get_at(I3.envs, f.closure, 0, "this"), LAMBDA this :
    Let(call_result(f, this, returned, I3.val), LAMBDA r :
    Let([I3 EXCEPT !.res = "Ok", !.err = "none"], LAMBDA I4 :
    Let(IF f.is_initializer
        THEN Event(I4, [op |-> "initializer_call", closure |-> f.closure,
                        outcome |-> IF returned THEN "Return" ELSE "Ok",
                        this |-> this, result |-> r])
        ELSE I4, LAMBDA I5 :
    Let(IF Ok(I3) \/ returned
        THEN IF r.ok THEN Value(I5, r.val) ELSE Fail(I5, "EnvironmentError")
        ELSE I3, LAMBDA I6 :
        Event(I6, [op |-> "LoxFunction_call", events |-> Len(I6.log) - Len(I.log),
                   body |-> IF Ok(I3) THEN "Ok" ELSE I3.err,
                   outcome |-> IF Ok(I6) THEN "Ok" ELSE I6.err]))))))))))

\* Callable::call of an Object::Function
Callable_call(I, f, arguments) ==
    IF f.kind = "Clock" THEN Value(I, Number(ClockMillis))
    ELSE LoxFunction_call(I, f, arguments)

\* Class::call on the class at index c
Class_call(I, c, arguments) ==
    LET klass == Len(I.classes) + 1      \* Rc::new(RefCell::new(self.clone()))
        instance == Len(I.instances) + 1
        initializer == find_method(I.classes, c, "init")
    IN  Let([I EXCEPT !.classes = Append(I.classes, I.classes[c]),
                      !.instances = Append(I.instances, Instance_new(klass))],
            LAMBDA I1 :
            IF initializer.found
            THEN Let(LoxFunction_bind(I1, initializer.method, instance), LAMBDA b :
                 Try(LoxFunction_call(b.I, b.f, arguments), LAMBDA I2 :
                     Value(Event(I2, [op |-> "Class_call", instance |-> instance,
                                      with_init |-> TRUE, init_result |-> I2.val]),
                           InstanceObj(instance))))
            ELSE Value(Event(I1, [op |-> "Class_call", instance |-> instance,
                                  with_init |-> FALSE, init_result |-> Nil]),
                       InstanceObj(instance)))

\* visit_call_expr: `for argument in arguments { args.push(evaluate(argument)?) }`
evaluate_arguments(I, arguments, i, args) ==
    IF i > Len(arguments) THEN [I |-> I, args |-> args]
    ELSE Let(Interpreter_evaluate(I, arguments[i]), LAMBDA I1 :
             IF ~Ok(I1) THEN [I |-> I1, args |-> args]
             ELSE evaluate_arguments(I1, arguments, i + 1, Append(args, I1.val)))

\* visit_call_expr without the two arity checks
call_callee_unchecked(I, callee, args) ==
    IF callee.t = "Function" THEN Callable_call(I, callee.f, args)
    ELSE IF callee.t = "Class" THEN Class_call(I, callee.ref, args)
    ELSE Fail(I, "NotCallable")

\* visit_call_expr once callee and arguments are evaluated
call_callee(I, callee, args) ==
    IF callee.t = "Function" THEN
        IF Callable_arity(callee.f) # Len(args) THEN Fail(I, "ArityError")
        ELSE Callable_call(I, callee.f, args)
    ELSE IF callee.t = "Class" THEN
        IF Class_arity(I.classes, callee.ref) # Len(args) THEN Fail(I, "ArityError")
        ELSE Class_call(I, callee.ref, args)
    ELSE Fail(I, "NotCallable")

\* what a call did, for the log: `before` is the Interpreter as the callee is
\* called, I the one it left
call_event(before, I, callee, args) ==
    [op |-> "call",
     callee |-> IF callee.t = "Class" THEN "Class"
                ELSE IF callee.t # "Function" THEN "Other"
                ELSE IF callee.f.kind = "Clock" THEN "Clock" ELSE "LoxFunction",
     arity |-> IF callee.t = "Class" THEN Class_arity(before.classes, callee.ref)
               ELSE IF callee.t = "Function" THEN Callable_arity(callee.f) ELSE -1,
     size |-> Len(args),
     outcome |-> IF I.res = "Ok" THEN "Ok" ELSE I.err,
     events |-> Len(I.log) - Len(before.log),
     envs |-> Len(I.envs) - Len(before.envs),
     instances |-> Len(I.instances) - Len(before.instances),
     output |-> Len(I.output) - Len(before.output)]

Interpreter_visit_call_expr(I, e) ==
    Try(Interpreter_evaluate(I, e.callee), LAMBDA I1 :
    Let(evaluate_arguments(I1, e.arguments, 1, <<>>), LAMBDA A :
        IF ~Ok(A.I) THEN A.I
        ELSE Let(call_callee(A.I, I1.val, A.args), LAMBDA I2 :
                 Event(I2, call_event(A.I, I2, I1.val, A.args)))))

Interpreter_visit_get_expr(I, e) ==
    Try(Interpreter_evaluate(I, e.object), LAMBDA I1 :
        IF I1.val.t = "Instance" THEN Instance_get(I1, I1.val.ref, e.name)
        ELSE Fail(I1, "PropertyAccessError"))

Interpreter_visit_set_expr(I, e) ==
    Try(Interpreter_evaluate(I, e.object), LAMBDA I1 :
        IF I1.val.t = "Instance" THEN
            Try(Interpreter_evaluate(I1, e.value), LAMBDA I2 :
                Value(Event(Instance_set(I2, I1.val.ref, e.name, I2.val),
                            [op |-> "Instance_set", receiver |-> I1.val.ref,
                             name |-> e.name.lexeme]),
                      I2.val))
        ELSE Fail(I1, "FieldAccessError"))

\* visit_logical_expr evaluating the right operand whatever the left one is
returns_left_never(op, left) == FALSE

\* visit_logical_expr: the cases of `return Ok(left)`
returns_left(op, left) ==
    IF op.token_type = "Or" THEN is_truthy(left) ELSE ~is_truthy(left)

Interpreter_visit_logical_expr(I, e) ==
    Try(Interpreter_evaluate(I, e.left), LAMBDA I1 :
    Try(IF returns_left(e.op, I1.val) THEN I1 ELSE Interpreter_evaluate(I1, e.right),
        LAMBDA I2 :
        Event(I2, [op |-> "logical", operator |-> e.op.token_type, left |-> I1.val,
                   result |-> I2.val, spent |-> I1.fuel - I2.fuel,
                   events |-> Len(I2.log) - Len(I1.log),
                   output |-> Len(I2.output) - Len(I1.output)])))

Interpreter_visit_super_expr(I, e) ==
    IF ~HashMap_contains(I.locals, e.keyword)
    THEN Panic(I, "Expect keyword to be in locals.")
    ELSE
    Let(HashMap_get(I.locals, e.keyword), LAMBDA distance :
    Let(Environment_get_at(I.envs, I.environment, distance, "super"), LAMBDA superclass :
        IF ~superclass.ok THEN Fail(I, "EnvironmentError")
        ELSE IF superclass.val.t # "Class" THEN Panic(I, "unreachable")
        ELSE IF distance = 0 THEN Panic(I, "attempt to subtract with overflow")
        ELSE
    Let(Environment_get_at(I.envs, I.environment, distance - 1, "this"), LAMBDA object :
        IF ~object.ok THEN Fail(I, "EnvironmentError")
        ELSE IF object.val.t # "Instance" THEN Panic(I, "unreachable")
        ELSE
    Let(find_method(I.classes, superclass.val.ref, e.method.lexeme), LAMBDA m :
    Let(Event(I, [op |-> "super", method |-> e.method.lexeme,
                  superclass |-> superclass.val, object |-> object.val,
                  nearest_super |-> Environment_get(I.envs, I.environment, "super").val,
                  nearest_this |-> Environment_get(I.envs, I.environment, "this").val,
                  found |-> m.found]), LAMBDA I1 :
        IF ~m.found THEN Fail(I1, "UndefinedProperty")
        ELSE
    Let(LoxFunction_bind(I1, m.method, object.val.ref), LAMBDA b :
        Value(b.I, Function(b.f))))))))

Interpreter_visit_unary_expr(I, e) ==
    Try(Interpreter_evaluate(I, e.right), LAMBDA I1 :
        IF e.op.token_type = "Minus" THEN
            IF I1.val.t = "Number" THEN Value(I1, Number(0 - I1.val.n))
            ELSE Fail(I1, "NaN")
        ELSE IF e.op.token_type = "Bang" THEN Value(I1, Bool(~is_truthy(I1.val)))
        ELSE Fail(I1, "UnsupportedUnaryOp"))

Interpreter_visit_assign_expr(I, e) ==
    Try(Interpreter_evaluate(I, e.value),
        LAMBDA I1 : assign_variable(I1, e.name, e.id, I1.val))

Interpreter_visit_binary_expr(I, e) ==
    Try(Interpreter_evaluate(I, e.left), LAMBDA I1 :
    Try(Interpreter_evaluate(I1, e.right), LAMBDA I2 :
        binary_op(I2, I1.val, e.op, I2.val)))

\* one unit of fuel is used by each evaluate and each execute
spend(I) == [I EXCEPT !.fuel = I.fuel - 1]

\* ExprVisitor::evaluate for the Interpreter
Interpreter_evaluate(I, e) ==
    IF I.fuel = 0 THEN Beyond(I, "fuel")
    ELSE IF e.k = "Assign" THEN Interpreter_visit_assign_expr(spend(I), e)
    ELSE IF e.k = "Binary" THEN Interpreter_visit_binary_expr(spend(I), e)
    ELSE IF e.k = "Call" THEN Interpreter_visit_call_expr(spend(I), e)
    ELSE IF e.k = "Get" THEN Interpreter_visit_get_expr(spend(I), e)
    ELSE IF e.k = "Grouping" THEN Interpreter_evaluate(spend(I), e.ex)
    ELSE IF e.k = "Literal" THEN Value(spend(I), e.value)
    ELSE IF e.k = "Logical" THEN Interpreter_visit_logical_expr(spend(I), e)
    ELSE IF e.k = "Set" THEN Interpreter_visit_set_expr(spend(I), e)
    ELSE IF e.k = "Super" THEN Interpreter_visit_super_expr(spend(I), e)
    ELSE IF e.k = "This" THEN look_up_variable(spend(I), e.keyword, e.id)
    ELSE IF e.k = "Unary" THEN Interpreter_visit_unary_expr(spend(I), e)
    ELSE look_up_variable(spend(I), e.name, e.id)   \* Variable

\* visit_class_stmt: the loop that builds methods_map, from method i on;
\* [ok, methods]
RECURSIVE class_methods(_, _, _, _)
class_methods(methods, closure, i, methods_map) ==
    IF i > Len(methods) THEN [ok |-> TRUE, methods |-> methods_map]
    ELSE LET method == methods[i] IN
         IF method.k # "Function" THEN [ok |-> FALSE, methods |-> methods_map]
         ELSE class_methods(methods, closure, i + 1,
                 Put(methods_map, method.name.lexeme,
                     LoxFunction(method.name.lexeme, closure,
                                 [j \in 1..Len(method.params) |-> method.params[j].lexeme],
                                 method.body, method.name.lexeme = "init")))

\* visit_class_stmt, `if let Some(s) = sklass`: the environment that holds
\* "super" becomes the current one
push_super(I, has_super, sklass) ==
    IF has_super
    THEN Let(alloc_env(I, I.environment), LAMBDA I2a :
             [I2a EXCEPT !.envs = Environment_define(I2a.envs, Len(I.envs) + 1, "super",
                                                     ClassObj(sklass)),
                         !.environment = Len(I.envs) + 1])
    ELSE I

\* the superclass linked by name once the class exists: a class named as its
\* superclass is then its own superclass
Interpreter_visit_class_stmt_by_name(I, s) ==
    LET has_super == Len(s.superclass) = 1 IN
    Try(IF has_super THEN Interpreter_evaluate(I, s.superclass[1]) ELSE I, LAMBDA I1 :
        IF has_super /\ I1.val.t # "Class" THEN Fail(I1, "SuperClassNotClass")
        ELSE
    Let(IF ~has_super THEN 0
        ELSE IF I1.classes[I1.val.ref].name = s.name.lexeme THEN Len(I1.classes) + 1
        ELSE I1.val.ref, LAMBDA sklass :
    Let([I1 EXCEPT !.envs = Environment_define(I1.envs, I1.environment,
                                               s.name.lexeme, Nil)], LAMBDA I2 :
    Let(push_super(I2, has_super, sklass), LAMBDA I3 :
    Let(class_methods(s.methods, I3.environment, 1, EmptyMap), LAMBDA mm :
        IF ~mm.ok THEN Fail(I3, "MethodNotFunction")
        ELSE IF has_super /\ I3.envs[I3.environment].enclosing = 0
        THEN Panic(I3, "Expect enclosig to exist.")
        ELSE
    Let(IF has_super
        THEN [I3 EXCEPT !.environment = I3.envs[I3.environment].enclosing]
        ELSE I3, LAMBDA I4 :
    Let([I4 EXCEPT !.classes = Append(I4.classes,
                                      Class_new(s.name.lexeme, sklass, mm.methods))],
        LAMBDA I5 :
    Let(Environment_assign(I5.envs, I5.environment, s.name,
                           ClassObj(Len(I4.classes) + 1)), LAMBDA r :
        IF ~r.ok THEN Fail(I5, "EnvironmentError")
        ELSE [I5 EXCEPT !.envs = r.envs]))))))))

Interpreter_visit_class_stmt(I, s) ==
    LET has_super == Len(s.superclass) = 1 IN
    Try(IF has_super THEN Interpreter_evaluate(I, s.superclass[1]) ELSE I, LAMBDA I1 :
        IF has_super /\ I1.val.t # "Class" THEN Fail(I1, "SuperClassNotClass")
        ELSE
    Let(IF has_super THEN I1.val.ref ELSE 0, LAMBDA sklass :
    Let([I1 EXCEPT !.envs = Environment_define(I1.envs, I1.environment,
                                               s.name.lexeme, Nil)], LAMBDA I2 :
    Let(push_super(I2, has_super, sklass), LAMBDA I3 :
    Let(class_methods(s.methods, I3.environment, 1, EmptyMap), LAMBDA mm :
        IF ~mm.ok THEN Fail(I3, "MethodNotFunction")
        ELSE IF has_super /\ I3.envs[I3.environment].enclosing = 0
        THEN Panic(I3, "Expect enclosig to exist.")
        ELSE
    Let(IF has_super
        THEN [I3 EXCEPT !.environment = I3.envs[I3.environment].enclosing]
        ELSE I3, LAMBDA I4 :
    Let([I4 EXCEPT !.classes = Append(I4.classes,
                                      Class_new(s.name.lexeme, sklass, mm.methods))],
        LAMBDA I5 :
    Let(Environment_assign(I5.envs, I5.environment, s.name,
                           ClassObj(Len(I4.classes) + 1)), LAMBDA r :
        IF ~r.ok THEN Fail(I5, "EnvironmentError")
        ELSE [I5 EXCEPT !.envs = r.envs]))))))))

Interpreter_visit_function_stmt(I, s) ==
    LET function == LoxFunction(s.name.lexeme, I.environment,
                                [j \in 1..Len(s.params) |-> s.params[j].lexeme],
                                s.body, FALSE)
    IN  [I EXCEPT !.envs = Environment_define(I.envs, I.environment, s.name.lexeme,
                                              Function(function))]

Interpreter_visit_if_stmt(I, s) ==
    Try(Interpreter_evaluate(I, s.condition), LAMBDA I1 :
        IF is_truthy(I1.val) THEN Interpreter_execute(I1, s.then_branch)
        ELSE IF Len(s.else_branch) = 1 THEN Interpreter_execute(I1, s.else_branch[1])
        ELSE I1)

Interpreter_visit_print_stmt(I, s) ==
    Try(Interpreter_evaluate(I, s.expr), LAMBDA I1 :
        Event([I1 EXCEPT !.output = Append(I1.output, Debug_fmt(I1, I1.val))],
              [op |-> "print", value |-> I1.val, written |-> Debug_fmt(I1, I1.val),
               display |-> Display_fmt(I1, I1.val)]))

\* visit_return_stmt that yields Ok(()) instead of Err(Error::Return)
Interpreter_visit_return_stmt_without_signal(I, s) ==
    Try(IF Len(s.value) = 1 THEN Interpreter_evaluate(I, s.value[1]) ELSE Value(I, Nil),
        LAMBDA I1 : Event(I1, [op |-> "return", value |-> I1.val]))

Interpreter_visit_return_stmt(I, s) ==
    Try(IF Len(s.value) = 1 THEN Interpreter_evaluate(I, s.value[1]) ELSE Value(I, Nil),
        LAMBDA I1 : Event(Fail(I1, "Return"), [op |-> "return", value |-> I1.val]))

Interpreter_visit_var_stmt(I, s) ==
    Try(IF Len(s.initializer) = 1 THEN Interpreter_evaluate(I, s.initializer[1])
        ELSE Value(I, Nil),
        LAMBDA I1 : [I1 EXCEPT !.envs = Environment_define(I1.envs, I1.environment,
                                                           s.name.lexeme, I1.val)])

visit_while_stmt(I, s) ==
    Try(Interpreter_evaluate(I, s.condition), LAMBDA I1 :
        IF ~is_truthy(I1.val) THEN I1
        ELSE Try(Interpreter_execute(I1, s.body), LAMBDA I2 : visit_while_stmt(I2, s)))

\* Interpreter::visit_block_stmt
Interpreter_visit_block_stmt(I, s) ==
    execute_block(alloc_env(I, I.environment), s.statements, Len(I.envs) + 1)

\* StmtVisitor::execute for the Interpreter
Interpreter_execute(I, s) ==
    IF I.fuel = 0 THEN Beyond(I, "fuel")
    ELSE IF s.k = "Block" THEN Interpreter_visit_block_stmt(spend(I), s)
    ELSE IF s.k = "Class" THEN Interpreter_visit_class_stmt(spend(I), s)
    ELSE IF s.k = "Expression" THEN Interpreter_evaluate(spend(I), s.expr)
    ELSE IF s.k = "Function" THEN Interpreter_visit_function_stmt(spend(I), s)
    ELSE IF s.k = "If" THEN Interpreter_visit_if_stmt(spend(I), s)
    ELSE IF s.k = "Print" THEN Interpreter_visit_print_stmt(spend(I), s)
    ELSE IF s.k = "Return" THEN Interpreter_visit_return_stmt(spend(I), s)
    ELSE IF s.k = "Var" THEN Interpreter_visit_var_stmt(spend(I), s)
    ELSE visit_while_stmt(spend(I), s)

-----------------------------------------------------------------------------
(* scanner.rs.  The source is the sequence of the bytes of a String: an    *)
(* ASCII byte is the one-character string, a byte above 0x7F is written    *)
(* "\\xHH".  S is the Scanner [source, tokens, start, current, line] with   *)
(* start and current counted from 0 as in the code, and three              *)
(* observations: errors, the Err values scan_token returned; panic, set    *)
(* when an unwrap of from_utf8 fails; and beyond, set when a number has a  *)
(* fractional part the model's integers cannot hold.                       *)

Digits == <<"0", "1", "2", "3", "4", "5", "6", "7", "8", "9">>

Letters ==
    {"a", "b", "c", "d", "e", "f", "g", "h", "i", "j", "k", "l", "m", "n", "o", "p",
     "q", "r", "s", "t", "u", "v", "w", "x", "y", "z", "A", "B", "C", "D", "E", "F",
     "G", "H", "I", "J", "K", "L", "M", "N", "O", "P", "Q", "R", "S", "T", "U", "V",
     "W", "X", "Y", "Z"}

\* the '\0' that peek returns at the end of the source
NUL == "\\0"

KEYWORDS ==
    [and |-> "And", class |-> "Class", else |-> "Else", false |-> "False",
     for |-> "For", fun |-> "Fun", if |-> "If", nil |-> "Nil", or |-> "Or",
     print |-> "Print", return |-> "Return", super |-> "Super", this |-> "This",
     true |-> "True", var |-> "Var", while |-> "While"]

is_digit(c) == \E d \in DOMAIN Digits : Digits[d] = c

\* the bytes above 0x7F the sources of the model hold: \xC3 starts a
\* two-byte character (U+00C0..U+00FF), \xA9 and \xAA continue one
Lead2 == {"\\xC3"}

Continuation == {"\\xA9", "\\xAA"}

\* `byte as char` is the character U+00HH: U+00C3 and U+00AA are alphabetic,
\* U+00A9 is not alphanumeric
is_alphabetic(c) == c \in Letters \cup {"\\xC3", "\\xAA"}

is_alphanumeric(c) == is_alphabetic(c) \/ is_digit(c)

Scanner_new(source) ==
    [source |-> source, tokens |-> <<>>, start |-> 0, current |-> 0, line |-> 1,
     errors |-> <<>>, panic |-> FALSE, beyond |-> FALSE]

Scanner_is_at_end(S) == S.current >= Len(S.source)

Scanner_advance(S) == [S EXCEPT !.current = S.current + 1]

Scanner_peek(S) == IF Scanner_is_at_end(S) THEN NUL ELSE S.source[S.current + 1]

peek_next(S) ==
    IF S.current + 1 >= Len(S.source) THEN NUL ELSE S.source[S.current + 2]

\* std::str::from_utf8(&source[from..to]) is Ok: every byte is ASCII or
\* part of a complete two-byte character
RECURSIVE utf8_ok(_, _, _)
utf8_ok(source, from, to) ==
    IF from >= to THEN TRUE
    ELSE IF source[from + 1] \in Continuation THEN FALSE
    ELSE IF source[from + 1] \in Lead2
    THEN /\ from + 1 < to
         /\ source[from + 2] \in Continuation
         /\ utf8_ok(source, from + 2, to)
    ELSE utf8_ok(source, from + 1, to)

\* the text from_utf8 yields: the bytes as one string
RECURSIVE text_of(_, _, _)
text_of(source, from, to) ==
    IF from >= to THEN "" ELSE source[from + 1] \o text_of(source, from + 1, to)

\* str::parse of a run of digits
RECURSIVE parse_digits(_, _, _, _)
parse_digits(source, from, to, acc) ==
    IF from >= to THEN acc
    ELSE parse_digits(source, from + 1, to,
                      10 * acc + (CHOOSE d \in DOMAIN Digits : Digits[d] = source[from + 1]) - 1)

add_token(S, token_type, literal) ==
    IF ~utf8_ok(S.source, S.start, S.current) THEN [S EXCEPT !.panic = TRUE]
    ELSE [S EXCEPT !.tokens = Append(S.tokens,
                                     Token(token_type,
                                           text_of(S.source, S.start, S.current),
                                           literal, S.line))]

check_next(S, c, left, right) ==
    IF Scanner_is_at_end(S) THEN add_token(S, right, <<>>)
    ELSE IF S.source[S.current + 1] # c THEN add_token(S, right, <<>>)
    ELSE add_token(Scanner_advance(S), left, <<>>)

\* `while self.peek() != '\n' && !self.is_at_end() { self.advance(); }`
RECURSIVE skip_comment(_)
skip_comment(S) ==
    IF Scanner_peek(S) # "\n" /\ ~Scanner_is_at_end(S) THEN skip_comment(Scanner_advance(S))
    ELSE S

\* the loop of string(): up to the closing quote or the end of the source
RECURSIVE string_body(_)
string_body(S) ==
    IF Scanner_peek(S) # "\"" /\ ~Scanner_is_at_end(S)
    THEN string_body(Scanner_advance(IF Scanner_peek(S) = "\n"
                                     THEN [S EXCEPT !.line = S.line + 1] ELSE S))
    ELSE S

\* Scanner::string; res tells Ok from Err(UndeterminedString)
Scanner_string(S) ==
    Let(string_body(S), LAMBDA S1 :
        IF Scanner_is_at_end(S1) THEN [S |-> S1, res |-> "UndeterminedString"]
        ELSE Let(Scanner_advance(S1), LAMBDA S2 :
                 [S |-> add_token(S2, "String",
                                  <<String(text_of(S2.source, S2.start + 1,
                                                   S2.current - 1))>>),
                  res |-> "Ok"]))

RECURSIVE skip_digits(_)
skip_digits(S) == IF is_digit(Scanner_peek(S)) THEN skip_digits(Scanner_advance(S)) ELSE S

\* Scanner::number: the literal is the integral value; a fractional part
\* other than zeros leaves the numbers of the model
Scanner_number(S) ==
    Let(skip_digits(S), LAMBDA S1 :
        IF Scanner_peek(S1) = "." /\ is_digit(peek_next(S1))
        THEN Let(skip_digits(Scanner_advance(S1)), LAMBDA S2 :
                 add_token([S2 EXCEPT !.beyond =
                               S2.beyond \/ parse_digits(S2.source, S1.current + 1,
                                                         S2.current, 0) # 0],
                           "Number",
                           <<Number(parse_digits(S2.source, S2.start, S1.current, 0))>>))
        ELSE add_token(S1, "Number",
                       <<Number(parse_digits(S1.source, S1.start, S1.current, 0))>>))

RECURSIVE skip_alphanumeric(_)
skip_alphanumeric(S) ==
    IF is_alphanumeric(Scanner_peek(S)) THEN skip_alphanumeric(Scanner_advance(S)) ELSE S

\* Scanner::identifier
Scanner_identifier(S) ==
    Let(skip_alphanumeric(S), LAMBDA S1 :
    Let(text_of(S1.source, S1.start, S1.current), LAMBDA text :
        IF ~utf8_ok(S1.source, S1.start, S1.current) THEN [S1 EXCEPT !.panic = TRUE]
        ELSE IF text \in DOMAIN KEYWORDS THEN add_token(S1, KEYWORDS[text], <<>>)
        ELSE add_token(S1, "Identifier", <<text>>)))

\* what scan_token does with the character c it advanced over
scan_char(S, c) ==
    CASE c = "(" -> [S |-> add_token(S, "LeftParen", <<>>), res |-> "Ok"]
      [] c = ")" -> [S |-> add_token(S, "RightParen", <<>>), res |-> "Ok"]
      [] c = "{" -> [S |-> add_token(S, "LeftBrace", <<>>), res |-> "Ok"]
      [] c = "}" -> [S |-> add_token(S, "RightBrace", <<>>), res |-> "Ok"]
      [] c = "," -> [S |-> add_token(S, "Comma", <<>>), res |-> "Ok"]
      [] c = "." -> [S |-> add_token(S, "Dot", <<>>), res |-> "Ok"]
      [] c = "-" -> [S |-> add_token(S, "Minus", <<>>), res |-> "Ok"]
      [] c = "+" -> [S |-> add_token(S, "Plus", <<>>), res |-> "Ok"]
      [] c = ";" -> [S |-> add_token(S, "Semicolon", <<>>), res |-> "Ok"]
      [] c = "*" -> [S |-> add_token(S, "Star", <<>>), res |-> "Ok"]
      [] c = "!" -> [S |-> check_next(S, "=", "BangEqual", "Bang"), res |-> "Ok"]
      [] c = "=" -> [S |-> check_next(S, "=", "EqualEqual", "Equal"), res |-> "Ok"]
      [] c = "<" -> [S |-> check_next(S, "=", "LessEqual", "Less"), res |-> "Ok"]
      [] c = ">" -> [S |-> check_next(S, "=", "GreaterEqual", "Greater"), res |-> "Ok"]
      [] c = "/" -> [S |-> IF Scanner_peek(S) = "/"       \* match_next('/')
                           THEN skip_comment(Scanner_advance(S))
                           ELSE add_token(S, "Slash", <<>>),
                     res |-> "Ok"]
      [] c \in {" ", "\r", "\t"} -> [S |-> S, res |-> "Ok"]
      [] c = "\n" -> [S |-> [S EXCEPT !.line = S.line + 1], res |-> "Ok"]
      [] c = "\"" -> Scanner_string(S)
      [] is_digit(c) -> [S |-> Scanner_number(S), res |-> "Ok"]
      [] is_alphabetic(c) -> [S |-> Scanner_identifier(S), res |-> "Ok"]
      [] OTHER -> [S |-> S, res |-> "UnexpectedChar"]

\* Scanner::scan_token
scan_token(S) == scan_char(Scanner_advance(S), S.source[S.current + 1])

\* one turn of the loop of scan_tokens: `let _ = self.scan_token();` drops
\* the Err, which the model keeps in errors
scan_turn(S) ==
    Let(scan_token([S EXCEPT !.start = S.current]), LAMBDA r :
        IF r.res = "Ok" THEN r.S
        ELSE [r.S EXCEPT !.errors = Append(r.S.errors, r.res)])

RECURSIVE scan_loop(_, _)

\* `while !self.is_at_end()` for at most n turns, split in two halves
scan_loop(S, n) ==
    IF n = 0 \/ Scanner_is_at_end(S) \/ S.panic THEN S
    ELSE IF n = 1 THEN scan_turn(S)
    ELSE scan_loop(scan_loop(S, n \div 2), n - (n \div 2))

\* `self.tokens.push(Token::new(TT::EOF, "", None, self.line))`
push_eof(S) == [S EXCEPT !.tokens = Append(S.tokens, Token("EOF", "", <<>>, S.line))]

\* Scanner::scan_tokens; every turn advances, so Len(source) turns reach
\* the end; a panic unwinds out of the loop
scan_tokens(S) ==
    Let(scan_loop(S, Len(S.source)), LAMBDA S1 : IF S1.panic THEN S1 ELSE push_eof(S1))

-----------------------------------------------------------------------------
(* parser.rs.  P is the Parser [tokens, current] (current counted from 0)  *)
(* with the outcome of the last call: res is "Ok", "Err" (err names the    *)
(* Error variant, at and msg its fields) or "Panic"; val is the value      *)
(* returned (a Token, an Expr, a Stmt or a Vec of them); output holds the  *)
(* lines the parser prints on stdout.  The id of a Variable, This or Super *)
(* node is origin plus the position of its token.  statements is the local *)
(* of parse; log holds what the calls did (observation only).              *)

MaxArgs == 255

\* impl Display for TokenType
TokenType_fmt(ty) ==
    CASE ty = "LeftParen" -> "("
      [] ty = "RightParen" -> ")"
      [] ty = "LeftBrace" -> "["
      [] ty = "RightBrace" -> "]"
      [] ty = "Comma" -> ","
      [] ty = "Dot" -> "."
      [] ty = "Minus" -> "-"
      [] ty = "Plus" -> "+"
      [] ty = "Semicolon" -> ";"
      [] ty = "Slash" -> "/"
      [] ty = "Star" -> "*"
      [] ty = "Bang" -> "!"
      [] ty = "BangEqual" -> "!="
      [] ty = "Equal" -> "="
      [] ty = "EqualEqual" -> "=="
      [] ty = "Greater" -> ">"
      [] ty = "GreaterEqual" -> ">="
      [] ty = "Less" -> "<"
      [] ty = "LessEqual" -> "<="
      [] ty = "Identifier" -> "IDENT"
      [] ty = "String" -> "STR"
      [] ty = "Number" -> "NUM"
      [] ty = "And" -> "and"
      [] ty = "Class" -> "class"
      [] ty = "Else" -> "else"
      [] ty = "False" -> "false"
      [] ty = "Fun" -> "fun"
      [] ty = "For" -> "for"
      [] ty = "If" -> "if"
      [] ty = "Nil" -> "nil"
      [] ty = "Or" -> "or"
      [] ty = "Print" -> "print"
      [] ty = "Return" -> "return"
      [] ty = "Super" -> "super"
      [] ty = "This" -> "this"
      [] ty = "True" -> "true"
      [] ty = "Var" -> "var"
      [] ty = "While" -> "while"
      [] ty = "EOF" -> "\\d"

Parser_new(tokens) ==
    [tokens |-> tokens, current |-> 0, res |-> "Ok", err |-> "none", at |-> <<>>,
     msg |-> "", val |-> <<>>, output |-> <<>>, origin |-> 0,
     statements |-> <<>>, log |-> <<>>]

\* Ok(v)
Parsed(P, v) == [P EXCEPT !.val = v]

\* Err(Error::Bad { token: self.peek().clone(), msg })
Bad(P, msg) ==
    [P EXCEPT !.res = "Err", !.err = "Bad", !.at = <<P.tokens[P.current + 1]>>,
              !.msg = msg]

\* Err(Error::MaxArgs), raised with `count` parameters or arguments taken
TooMany(P, count) ==
    Event([P EXCEPT !.res = "Err", !.err = "MaxArgs"],
          [op |-> "MaxArgs", current |-> P.current, count |-> count])

Parser_peek(P) == P.tokens[P.current + 1]

Parser_is_at_end(P) == Parser_peek(P).token_type = "EOF"

\* the Token `previous()` returns; current - 1 is defined for current > 0
Parser_previous(P) == P.tokens[P.current]

Parser_check(P, ty) == ~Parser_is_at_end(P) /\ Parser_peek(P).token_type = ty

\* Parser::advance; the caller reads Parser_previous of the result
Parser_advance(P) ==
    IF ~Parser_is_at_end(P) THEN [P EXCEPT !.current = P.current + 1]
    ELSE IF P.current = 0 THEN Panic(P, "attempt to subtract with overflow")
    ELSE P

\* the test of eval_tokens: one of `types` is next; eval_tokens then advances
eval_tokens(P, types) == \E ty \in types : Parser_check(P, ty)

consume(P, ty, message) ==
    IF Parser_check(P, ty)
    THEN Let(Parser_advance(P), LAMBDA P1 : Parsed(P1, Parser_previous(P1)))
    ELSE Bad(P, message)

RECURSIVE expression(_)
RECURSIVE args_loop(_, _)
RECURSIVE call_rest(_)
RECURSIVE unary(_)
RECURSIVE factor_from(_, _)
RECURSIVE term_from(_, _)
RECURSIVE comparison_from(_, _)
RECURSIVE equality_from(_, _)
RECURSIVE and_from(_, _)
RECURSIVE or_from(_, _)
RECURSIVE assignment(_)

\* Parser::primary, after `self.advance()`: prev is previous()
primary_of(P, prev) ==
    CASE prev.token_type = "False" -> Parsed(P, Literal(Bool(FALSE)))
      [] prev.token_type = "True" -> Parsed(P, Literal(Bool(TRUE)))
      [] prev.token_type = "Nil" -> Parsed(P, Literal(Nil))
      [] prev.token_type = "Super" ->
            Try(consume(P, "Dot", "Expect '.' after 'super'."), LAMBDA P1 :
            Try(consume(P1, "Identifier", "Expect superclass method name."), LAMBDA P2 :
                Parsed(P2, Super(prev, P2.val, P.origin + P.current))))
      [] prev.token_type = "This" -> Parsed(P, This(prev, P.origin + P.current))
      [] prev.token_type \in {"Number", "String"} ->
            IF prev.literal = <<>>
            THEN Panic(P, "token does not have a literal")
            ELSE Parsed(P, Literal(prev.literal[1]))
      [] prev.token_type = "Identifier" -> Parsed(P, Variable(prev, P.origin + P.current))
      [] prev.token_type = "LeftParen" ->
            \* at the end of the tokens advance() does not move and previous()
            \* stays this `(`: expression() comes back to primary in the same
            \* state, and the recursion ends when the stack is exhausted
            IF Parser_is_at_end(P) THEN Panic(P, "stack overflow")
            ELSE
            Try(expression(P), LAMBDA P1 :
            Try(consume(P1, "RightParen", "Expect ')' after expression."), LAMBDA P2 :
                Parsed(P2, Grouping(P1.val))))
      [] OTHER ->
            Bad([P EXCEPT !.output =
                    Append(P.output, "Token found that is wrong: "
                                     \o TokenType_fmt(prev.token_type))],
                "Expect expression.")

\* Parser::primary
primary(P) ==
    Try(Parser_advance(P), LAMBDA P1 : primary_of(P1, Parser_previous(P1)))

\* finish_call: the loop `while self.eval_tokens(&[Comma])`
\* Parser::finish_call: one turn of `while self.eval_tokens(&[Comma])`; X
\* is [P, list, done], done once the loop is left
args_turn(X) ==
    IF ~eval_tokens(X.P, {"Comma"}) THEN [X EXCEPT !.done = TRUE]
    ELSE IF Len(X.list) >= MaxArgs
    THEN [X EXCEPT !.P = TooMany(Parser_advance(X.P), Len(X.list)), !.done = TRUE]
    ELSE Let(expression(Parser_advance(X.P)), LAMBDA P1 :
             IF P1.res # "Ok" THEN [X EXCEPT !.P = P1, !.done = TRUE]
             ELSE [P |-> P1, list |-> Append(X.list, P1.val), done |-> FALSE])

\* at most n turns of the loop, split in two halves
args_loop(X, n) ==
    IF n = 0 \/ X.done THEN X
    ELSE IF n = 1 THEN args_turn(X)
    ELSE args_loop(args_loop(X, n \div 2), n - (n \div 2))

\* Parser::finish_call after the first argument: every turn that goes on
\* consumes a token, so Len(tokens) + 1 turns leave the loop
finish_call_rest(P, callee, arguments) ==
    Let(args_loop([P |-> P, list |-> arguments, done |-> FALSE], Len(P.tokens) + 1),
        LAMBDA X :
        Try(X.P, LAMBDA P0 :
        Try(consume(P0, "RightParen", "Expect ')' after arguments."), LAMBDA P1 :
            Parsed(P1, Call(callee, X.list)))))

\* Parser::finish_call
finish_call(P, callee) ==
    IF ~Parser_check(P, "RightParen")
    THEN Try(expression(P), LAMBDA P1 : finish_call_rest(P1, callee, <<P1.val>>))
    ELSE finish_call_rest(P, callee, <<>>)

\* Parser::call: the loop over `(` and `.` after the primary in P.val
call_rest(P) ==
    IF eval_tokens(P, {"LeftParen"})
    THEN Try(finish_call(Parser_advance(P), P.val), LAMBDA P1 : call_rest(P1))
    ELSE IF eval_tokens(P, {"Dot"})
    THEN Try(consume(Parser_advance(P), "Identifier", "Expect property name after '.'."),
             LAMBDA P1 : call_rest(Parsed(P1, Get(P.val, P1.val))))
    ELSE P

call(P) == Try(primary(P), LAMBDA P1 : call_rest(P1))

unary(P) ==
    IF eval_tokens(P, {"Bang", "Minus"})
    THEN Try(unary(Parser_advance(P)),
             LAMBDA P1 : Parsed(P1, Unary(Parser_peek(P), P1.val)))
    ELSE call(P)

\* the operand just parsed, joined to the left operand and operator of the
\* loop's previous turn (left is <<>> on the first turn)
joined(P, left, make(_, _, _)) ==
    IF left = <<>> THEN P ELSE Parsed(P, make(left[1].expr, left[1].op, P.val))

\* what the next turn of a binary loop starts with: the operator token is
\* consumed, the expression so far is the left operand
turn(P) == <<[expr |-> P.val, op |-> Parser_peek(P)]>>

\* Parser::factor: one operand and one turn of the loop
factor_from(P, left) ==
    Try(unary(P), LAMBDA P1 :
    Let(joined(P1, left, Binary), LAMBDA P2 :
        IF eval_tokens(P2, {"Slash", "Star"})
        THEN factor_from(Parser_advance(P2), turn(P2))
        ELSE P2))

factor(P) == factor_from(P, <<>>)

\* Parser::term
term_from(P, left) ==
    Try(factor(P), LAMBDA P1 :
    Let(joined(P1, left, Binary), LAMBDA P2 :
        IF eval_tokens(P2, {"Minus", "Plus"})
        THEN term_from(Parser_advance(P2), turn(P2))
        ELSE P2))

term(P) == term_from(P, <<>>)

\* Parser::comparison
comparison_from(P, left) ==
    Try(term(P), LAMBDA P1 :
    Let(joined(P1, left, Binary), LAMBDA P2 :
        IF eval_tokens(P2, {"Greater", "GreaterEqual", "Less", "LessEqual"})
        THEN comparison_from(Parser_advance(P2), turn(P2))
        ELSE P2))

comparison(P) == comparison_from(P, <<>>)

\* Parser::equality
equality_from(P, left) ==
    Try(comparison(P), LAMBDA P1 :
    Let(joined(P1, left, Binary), LAMBDA P2 :
        IF eval_tokens(P2, {"BangEqual", "EqualEqual"})
        THEN equality_from(Parser_advance(P2), turn(P2))
        ELSE P2))

equality(P) == equality_from(P, <<>>)

\* Parser::and
and_from(P, left) ==
    Try(equality(P), LAMBDA P1 :
    Let(joined(P1, left, Logical), LAMBDA P2 :
        IF Parser_check(P2, "And")
        THEN and_from(Parser_advance(P2), turn(P2))
        ELSE P2))

and(P) == and_from(P, <<>>)

\* Parser::or
or_from(P, left) ==
    Try(and(P), LAMBDA P1 :
    Let(joined(P1, left, Logical), LAMBDA P2 :
        IF Parser_check(P2, "Or")
        THEN or_from(Parser_advance(P2), turn(P2))
        ELSE P2))

or(P) == or_from(P, <<>>)

\* the match of assignment on the left-hand side, the value parsed
\* assignment that takes a Get target for a plain variable
assign_to_by_name(P, expr, equals, value) ==
    IF expr.k \in {"Variable", "Get"} THEN Parsed(P, Assign(expr.name, value, 0))
    ELSE [P EXCEPT !.res = "Err", !.err = "InvalidAssignment", !.at = <<equals>>]

assign_to(P, expr, equals, value) ==
    IF expr.k = "Variable" THEN Parsed(P, Assign(expr.name, value, expr.id))
    ELSE IF expr.k = "Get" THEN Parsed(P, Set(expr.object, expr.name, value))
    ELSE [P EXCEPT !.res = "Err", !.err = "InvalidAssignment", !.at = <<equals>>]

\* Parser::assignment
assignment(P) ==
    Try(or(P), LAMBDA P1 :
        IF Parser_check(P1, "Equal")
        THEN Try(assignment(Parser_advance(P1)), LAMBDA P2 :
             Let(assign_to(P2, P1.val, Parser_peek(P1), P2.val), LAMBDA P3 :
                 Event(P3, [op |-> "assignment", target |-> P1.val,
                            equals |-> Parser_peek(P1), value |-> P2.val,
                            res |-> P3.res, err |-> P3.err, at |-> P3.at,
                            val |-> P3.val])))
        ELSE P1)

\* Parser::expression
expression(P) == assignment(P)

RECURSIVE declaration(_)
RECURSIVE statement(_)
RECURSIVE block_from(_, _)
RECURSIVE params_loop(_, _)
RECURSIVE methods_from(_, _)
RECURSIVE synchronize_from(_)
RECURSIVE parse_from(_)

\* Parser::block: the loop, then the closing brace
block_from(P, statements) ==
    IF ~Parser_check(P, "RightBrace") /\ ~Parser_is_at_end(P)
    THEN Try(declaration(P), LAMBDA P1 : block_from(P1, Append(statements, P1.val)))
    ELSE Try(consume(P, "RightBrace", "Expect '}' after block."),
             LAMBDA P1 : Parsed(P1, statements))

block(P) == block_from(P, <<>>)

\* Parser::function: one turn of the `loop` over the parameters; X is
\* [P, list, done], done once the loop is left
params_turn(X) ==
    IF Len(X.list) >= MaxArgs
    THEN [X EXCEPT !.P = TooMany(X.P, Len(X.list)), !.done = TRUE]
    ELSE Let(consume(X.P, "Identifier", "Expect parameter name."), LAMBDA P1 :
             IF P1.res # "Ok" THEN [X EXCEPT !.P = P1, !.done = TRUE]
             ELSE IF ~Parser_check(P1, "Comma")
             THEN [P |-> P1, list |-> Append(X.list, P1.val), done |-> TRUE]
             ELSE [P |-> Parser_advance(P1), list |-> Append(X.list, P1.val),
                   done |-> FALSE])

\* at most n turns of the loop, split in two halves
params_loop(X, n) ==
    IF n = 0 \/ X.done THEN X
    ELSE IF n = 1 THEN params_turn(X)
    ELSE params_loop(params_loop(X, n \div 2), n - (n \div 2))

\* the loop of Parser::function: every turn that goes on consumes two
\* tokens, so Len(tokens) turns leave it
params_from(P) ==
    Let(params_loop([P |-> P, list |-> <<>>, done |-> FALSE], Len(P.tokens)),
        LAMBDA X : IF X.P.res = "Ok" THEN Parsed(X.P, X.list) ELSE X.P)

\* Parser::function
function(P, kind) ==
    Try(consume(P, "Identifier", "Expect " \o kind \o " name."), LAMBDA P1 :
    Try(consume(P1, "LeftParen", "Expect '(' after " \o kind \o " name."), LAMBDA P2 :
    Try(IF ~Parser_check(P2, "RightParen") THEN params_from(P2)
        ELSE Parsed(P2, <<>>), LAMBDA P3 :
    Try(consume(P3, "RightParen", "Expect ')' after parameters."), LAMBDA P4 :
    Try(consume(P4, "LeftBrace", "Expect '{' before " \o kind \o " body."), LAMBDA P5 :
    Try(block(P5), LAMBDA P6 :
        Parsed(P6, FunctionStmt(P1.val, P3.val, P6.val))))))))

\* Parser::class_declaration: the loop over the methods
methods_from(P, methods) ==
    IF ~Parser_check(P, "RightBrace") /\ ~Parser_is_at_end(P)
    THEN Try(function(P, "method"), LAMBDA P1 : methods_from(P1, Append(methods, P1.val)))
    ELSE Parsed(P, methods)

\* Parser::class_declaration
class_declaration(P) ==
    Try(consume(P, "Identifier", "Expect class name."), LAMBDA P1 :
    Try(IF Parser_check(P1, "Greater")
        THEN Try(consume(Parser_advance(P1), "Identifier", "Expect superclass name."),
                 LAMBDA Ps : Parsed(Ps, <<Variable(Ps.val, Ps.origin + Ps.current)>>))
        ELSE Parsed(P1, <<>>), LAMBDA P2 :
    Try(consume(P2, "LeftBrace", "Expect '{' before class body."), LAMBDA P3 :
    Try(methods_from(P3, <<>>), LAMBDA P4 :
    Try(consume(P4, "RightBrace", "Expect '}' after class body."), LAMBDA P5 :
        Parsed(P5, ClassStmt(P1.val, P2.val, P4.val)))))))

var_declaration(P) ==
    Try(consume(P, "Identifier", "Expect variable name."), LAMBDA P1 :
    Try(IF Parser_check(P1, "Equal")
        THEN Try(expression(Parser_advance(P1)), LAMBDA Pe : Parsed(Pe, <<Pe.val>>))
        ELSE Parsed(P1, <<>>), LAMBDA P2 :
    Try(consume(P2, "Semicolon", "Expect ';' after variable declaration."), LAMBDA P3 :
        Parsed(P3, VarStmt(P1.val, P2.val)))))

expression_statement(P) ==
    Try(expression(P), LAMBDA P1 :
    Try(consume(P1, "Semicolon", "Expect ';' after expression."), LAMBDA P2 :
        Parsed(P2, ExpressionStmt(P1.val))))

print_statement(P) ==
    Try(expression(P), LAMBDA P1 :
    Try(consume(P1, "Semicolon", "Expect ';' after value."), LAMBDA P2 :
        Parsed(P2, PrintStmt(P1.val))))

\* Parser::return_statement; keyword is previous(), the `return` token
return_statement(P) ==
    Try(IF ~Parser_check(P, "Semicolon")
        THEN Try(expression(P), LAMBDA Pe : Parsed(Pe, <<Pe.val>>))
        ELSE Parsed(P, <<>>), LAMBDA P1 :
    Try(consume(P1, "Semicolon", "Expect ';' after return value."), LAMBDA P2 :
        Parsed(P2, ReturnStmt(Parser_previous(P), P1.val))))

while_statement(P) ==
    Try(consume(P, "LeftParen", "Expect '(' after 'while'."), LAMBDA P1 :
    Try(expression(P1), LAMBDA P2 :
    Try(consume(P2, "RightParen", "Expect ')' after condition."), LAMBDA P3 :
    Try(statement(P3), LAMBDA P4 :
        Parsed(P4, WhileStmt(P2.val, P4.val))))))

\* Parser::if_statement: `if self.check(&Else)` goes on to statement()
\* with the cursor where it is
if_statement(P) ==
    Try(consume(P, "LeftParen", "Expect '(' after 'if'."), LAMBDA P1 :
    Try(expression(P1), LAMBDA P2 :
    Try(consume(P2, "RightParen", "Expect ')' after if condition."), LAMBDA P3 :
    Try(statement(P3), LAMBDA P4 :
    Try(IF Parser_check(P4, "Else")
        THEN Try(statement(P4), LAMBDA Pe : Parsed(Pe, <<Pe.val>>))
        ELSE Parsed(P4, <<>>), LAMBDA P5 :
        Parsed(P5, IfStmt(P2.val, P4.val, P5.val)))))))

\* for_statement: the desugaring of initializer, condition, increment, body
for_desugar(initializer, condition, increment, body) ==
    Let(IF Len(increment) = 1
        THEN BlockStmt(<<body, ExpressionStmt(increment[1])>>) ELSE body, LAMBDA b1 :
    Let(WhileStmt(IF Len(condition) = 1 THEN condition[1] ELSE Literal(Bool(TRUE)), b1),
        LAMBDA b2 :
        IF Len(initializer) = 1 THEN BlockStmt(<<initializer[1], b2>>) ELSE b2))

\* Parser::for_statement
for_statement(P) ==
    Try(consume(P, "LeftParen", "Expect '(' after 'for'."), LAMBDA P1 :
    Try(IF Parser_check(P1, "Semicolon") THEN Parsed(Parser_advance(P1), <<>>)
        ELSE IF Parser_check(P1, "Var")
        THEN Try(var_declaration(Parser_advance(P1)), LAMBDA Pv : Parsed(Pv, <<Pv.val>>))
        ELSE Try(expression_statement(P1), LAMBDA Px : Parsed(Px, <<Px.val>>)),
        LAMBDA P2 :
    Try(IF ~Parser_check(P2, "Semicolon")
        THEN Try(expression(P2), LAMBDA Pc : Parsed(Pc, <<Pc.val>>))
        ELSE Parsed(P2, <<>>), LAMBDA P3 :
    Try(consume(P3, "Semicolon", "Expect ';' after loop condition."), LAMBDA P4 :
    Try(IF ~Parser_check(P4, "RightParen")
        THEN Try(expression(P4), LAMBDA Pi : Parsed(Pi, <<Pi.val>>))
        ELSE Parsed(P4, <<>>), LAMBDA P5 :
    Try(consume(P5, "RightParen", "Expect ')' after for clauses."), LAMBDA P6 :
    Try(statement(P6), LAMBDA P7 :
        Parsed(P7, for_desugar(P2.val, P3.val, P5.val, P7.val)))))))))

\* Parser::statement
statement(P) ==
    IF Parser_check(P, "For") THEN for_statement(Parser_advance(P))
    ELSE IF Parser_check(P, "If") THEN if_statement(Parser_advance(P))
    ELSE IF Parser_check(P, "Print") THEN print_statement(Parser_advance(P))
    ELSE IF Parser_check(P, "Return") THEN return_statement(Parser_advance(P))
    ELSE IF Parser_check(P, "While") THEN while_statement(Parser_advance(P))
    ELSE IF Parser_check(P, "LeftBrace")
    THEN Try(block(Parser_advance(P)), LAMBDA P1 : Parsed(P1, BlockStmt(P1.val)))
    ELSE expression_statement(P)

\* Parser::synchronize: the loop after the first advance
synchronize_from(P) ==
    IF Parser_is_at_end(P) THEN P
    ELSE IF Parser_previous(P).token_type = "Semicolon" THEN P
    ELSE IF Parser_peek(P).token_type \in
              {"Class", "Fun", "Var", "For", "If", "While", "Print", "Return"} THEN P
    ELSE synchronize_from([P EXCEPT !.current = P.current + 1])

\* synchronize without its first advance: the token of the error stays
synchronize_without_advance(P) == synchronize_from(P)

\* Parser::synchronize, on a parser that holds an Err
synchronize(P) ==
    IF Parser_is_at_end(P)
    THEN IF P.current = 0 THEN Panic(P, "attempt to subtract with overflow") ELSE P
    ELSE synchronize_from([P EXCEPT !.current = P.current + 1])

\* what a call of declaration did: the cursor as it started, as its
\* statement ended, and as it returned (after synchronize, on an Err)
declaration_event(P, res, after) ==
    [op |-> "declaration", from |-> P.current, to |-> res.current,
     res |-> res.res, err |-> res.err, after |-> after.current]

\* Parser::declaration
declaration(P) ==
    Let(IF Parser_check(P, "Class") THEN class_declaration(Parser_advance(P))
        ELSE IF Parser_check(P, "Fun") THEN function(Parser_advance(P), "function")
        ELSE IF Parser_check(P, "Var") THEN var_declaration(Parser_advance(P))
        ELSE statement(P), LAMBDA res :
    Let(IF res.res = "Err" THEN synchronize(res) ELSE res, LAMBDA after :
        Event(after, declaration_event(P, res, after))))

\* Parser::parse: one turn of `while !self.is_at_end()`
parse_turn(P) ==
    Try(declaration(P), LAMBDA P1 :
        [P1 EXCEPT !.statements = Append(P1.statements, P1.val)])

\* Parser::parse: the loop
parse_from(P) ==
    IF ~Parser_is_at_end(P) THEN Try(parse_turn(P), LAMBDA P1 : parse_from(P1))
    ELSE Parsed(P, P.statements)

parse(P) == parse_from(P)

-----------------------------------------------------------------------------
(* main.rs *)

\* the Interpreter as a run starts: the log holds the events of this run only
fresh(I) ==
    [I EXCEPT !.log = <<>>, !.fuel = MaxFuel, !.res = "Ok", !.err = "none", !.val = Nil]

\* the Resolver wrote the Interpreter's locals
resolved_into(I, R) ==
    [I EXCEPT !.locals = R.locals, !.log = R.log, !.resolved = R.resolved]

\* Lox::run after scanning and parsing produced `statements`: resolve, then
\* interpret unless the resolver reported an error
run(I, statements) ==
    Let(Resolver_resolve(Resolver_new(I), statements, 1), LAMBDA R :
    Let(resolved_into(I, R), LAMBDA I1 :
        IF R.res = "Panic" THEN Panic(I1, R.err)
        ELSE IF R.res = "Err"
        THEN Event(Fail(I1, R.err), [op |-> "resolve_error", err |-> R.err])
        ELSE interpret(I1, statements)))

\* the Err values scan_tokens dropped, as events of the run
scan_events(errors) == [j \in DOMAIN errors |-> [op |-> "scan_error", err |-> errors[j]]]

\* the Interpreter after scanner and parser ran: the parser wrote on stdout
scanned(I, S, P) ==
    [I EXCEPT !.log = scan_events(S.errors), !.output = I.output \o P.output]

\* Lox::run: [I, returned], returned being the Result of run.  origin
\* numbers the occurrences of this parse.
Lox_run(I, bytes, origin) ==
    Let(scan_tokens(Scanner_new(bytes)), LAMBDA S :
    IF S.panic THEN [I |-> Panic(fresh(I), "from_utf8"), returned |-> "Ok"]
    ELSE
    Let(parse([Parser_new(S.tokens) EXCEPT !.origin = origin]), LAMBDA P :
    Let(scanned(fresh(I), S, P), LAMBDA I0 :
        IF S.beyond THEN [I |-> Beyond(I0, "fraction"), returned |-> "Ok"]
        ELSE IF P.res = "Panic" THEN [I |-> Panic(I0, P.err), returned |-> "Ok"]
        ELSE IF P.res = "Err"
        THEN [I |-> Event(Fail(I0, P.err),
                          [op |-> "parse_error", err |-> P.err, msg |-> P.msg]),
              returned |-> "Err"]
        ELSE [I |-> run(I0, P.val), returned |-> "Ok"])))

-----------------------------------------------------------------------------
(* The sources the driver is given: the text of a script file or of a    *)
(* line typed at the prompt, one character of the source per element.    *)

Sources == <<
  \* 1
  \*     var a = 0;
  <<"v","a","r"," ","a"," ","="," ","0",";">>,
  \* 2
  \*     { var a = 1; { var a = 2; a = 3; } }
  <<"{"," ","v","a","r"," ","a"," ","="," ","1",";"," ","{"," ","v","a","r"," ","a"," ","="," ","2",";"," ","a"," ","="," ","3",";"," ","}"," ","}">>,
  \* 3
  \*     { var a = 1; { a = 2; } a = 3; }
  <<"{"," ","v","a","r"," ","a"," ","="," ","1",";"," ","{"," ","a"," ","="," ","2",";"," ","}"," ","a"," ","="," ","3",";"," ","}">>,
  \* 4
  \*     { var a = 1; { a = 2; } }
  <<"{"," ","v","a","r"," ","a"," ","="," ","1",";"," ","{"," ","a"," ","="," ","2",";"," ","}"," ","}">>,
  \* 5
  \*     a = 5;
  <<"a"," ","="," ","5",";">>,
  \* 6
  \*     print a;
  <<"p","r","i","n","t"," ","a",";">>,
  \* 7
  \*     { var b = 1; { print b; } }
  <<"{"," ","v","a","r"," ","b"," ","="," ","1",";"," ","{"," ","p","r","i","n","t"," ","b",";"," ","}"," ","}">>,
  \* 8
  \*     { var a = a; }
  <<"{"," ","v","a","r"," ","a"," ","="," ","a",";"," ","}">>,
  \* 9
  \*     { var a = 1; print a; }
  <<"{"," ","v","a","r"," ","a"," ","="," ","1",";"," ","p","r","i","n","t"," ","a",";"," ","}">>,
  \* 10
  \*     fun f() { { return 1; } print 2; } print f();
  <<"f","u","n"," ","f","(",")"," ","{"," ","{"," ","r","e","t","u","r","n"," ","1",";"," ","}"," ","p","r","i","n","t"," ","2",";"," ","}"," ","p","r","i","n","t"," ","f","(",")",";">>,
  \* 11
  \*     fun g() { { return 1; } } { print 0; } print g(); { { print 1 + "x"; } }
  <<"f","u","n"," ","g","(",")"," ","{"," ","{"," ","r","e","t","u","r","n"," ","1",";"," ","}"," ","}"," ","{"," ","p","r","i","n","t"," ","0",";"," ","}"," ","p","r","i","n","t"," ","g","(",")",";"," ","{"," ","{"," ","p","r","i","n","t"," ","1"," ","+"," ","\"","x","\"",";"," ","}"," ","}">>,
  \* 12
  \*     class C { set() { this.x = 1; } } var c = C(); c.set(); print c.x;
  <<"c","l","a","s","s"," ","C"," ","{"," ","s","e","t","(",")"," ","{"," ","t","h","i","s",".","x"," ","="," ","1",";"," ","}"," ","}"," ","v","a","r"," ","c"," ","="," ","C","(",")",";"," ","c",".","s","e","t","(",")",";"," ","p","r","i","n","t"," ","c",".","x",";">>,
  \* 13
  \*     class D { get() { return this.x; } } var d = D(); var m = d.get; d.x = 2; print m();
  <<"c","l","a","s","s"," ","D"," ","{"," ","g","e","t","(",")"," ","{"," ","r","e","t","u","r","n"," ","t","h","i","s",".","x",";"," ","}"," ","}"," ","v","a","r"," ","d"," ","="," ","D","(",")",";"," ","v","a","r"," ","m"," ","="," ","d",".","g","e","t",";"," ","d",".","x"," ","="," ","2",";"," ","p","r","i","n","t"," ","m","(",")",";">>,
  \* 14
  \*     class P { init(x) { this.x = x; return; } } class Q { init() { this.n = 1; } }
  <<"c","l","a","s","s"," ","P"," ","{"," ","i","n","i","t","(","x",")"," ","{"," ","t","h","i","s",".","x"," ","="," ","x",";"," ","r","e","t","u","r","n",";"," ","}"," ","}"," ","c","l","a","s","s"," ","Q"," ","{"," ","i","n","i","t","(",")"," ","{"," ","t","h","i","s",".","n"," ","="," ","1",";"," ","}"," ","}">>,
  \* 15
  \*     var p = P(3); print p.x; print p.init(4).x; print Q().n;
  <<"v","a","r"," ","p"," ","="," ","P","(","3",")",";"," ","p","r","i","n","t"," ","p",".","x",";"," ","p","r","i","n","t"," ","p",".","i","n","i","t","(","4",")",".","x",";"," ","p","r","i","n","t"," ","Q","(",")",".","n",";">>,
  \* 16
  \*     class Q { init() { this.n = 1; } } print Q().n;
  <<"c","l","a","s","s"," ","Q"," ","{"," ","i","n","i","t","(",")"," ","{"," ","t","h","i","s",".","n"," ","="," ","1",";"," ","}"," ","}"," ","p","r","i","n","t"," ","Q","(",")",".","n",";">>,
  \* 17: scenario 2 of the specification
  \*     fun makeCounter(){ var i=0; fun c(){ i=i+1; return i;} return c;}
  \*     var c = makeCounter(); print c(); print c(); print c();
  <<"f","u","n"," ","m","a","k","e","C","o","u","n","t","e","r","(",")","{"," ","v","a","r"," ","i","=","0",";"," ","f","u","n"," ","c","(",")","{"," ","i","=","i","+","1",";"," ","r","e","t","u","r","n"," ","i",";","}"," ","r","e","t","u","r","n"," ","c",";","}","\n","v","a","r"," ","c"," ","="," ","m","a","k","e","C","o","u","n","t","e","r","(",")",";"," ","p","r","i","n","t"," ","c","(",")",";"," ","p","r","i","n","t"," ","c","(",")",";"," ","p","r","i","n","t"," ","c","(",")",";">>,
  \* 18: scenario 3 of the specification
  \*     var a = "global";
  \*     { fun show(){ print a; } show();
  \*       var a = "local"; show(); }
  <<"v","a","r"," ","a"," ","="," ","\"","g","l","o","b","a","l","\"",";","\n","{"," ","f","u","n"," ","s","h","o","w","(",")","{"," ","p","r","i","n","t"," ","a",";"," ","}"," ","s","h","o","w","(",")",";","\n"," "," ","v","a","r"," ","a"," ","="," ","\"","l","o","c","a","l","\"",";"," ","s","h","o","w","(",")",";"," ","}">>,
  \* 19: source 3 with one statement per line
  \*     { var a = 1;
  \*     { a = 2; }
  \*     a = 3; }
  <<"{"," ","v","a","r"," ","a"," ","="," ","1",";","\n","{"," ","a"," ","="," ","2",";"," ","}","\n","a"," ","="," ","3",";"," ","}">>,
  \* 20
  \*     { var a = 1; a = 3; { a = 2; } }
  <<"{"," ","v","a","r"," ","a"," ","="," ","1",";"," ","a"," ","="," ","3",";"," ","{"," ","a"," ","="," ","2",";"," ","}"," ","}">>,
  \* 21
  \*     class A { init() { return 1; } }
  <<"c","l","a","s","s"," ","A"," ","{"," ","i","n","i","t","(",")"," ","{"," ","r","e","t","u","r","n"," ","1",";"," ","}"," ","}">>,
  \* 22
  \*     class init { m() { return 1; } }
  <<"c","l","a","s","s"," ","i","n","i","t"," ","{"," ","m","(",")"," ","{"," ","r","e","t","u","r","n"," ","1",";"," ","}"," ","}">>,
  \* 23
  \*     class A { m() { return this; } }
  \*     class B > A { m() { return 0; } t() { return super.m; } }
  \*     var b = B(); print b.t()() == b;
  <<"c","l","a","s","s"," ","A"," ","{"," ","m","(",")"," ","{"," ","r","e","t","u","r","n"," ","t","h","i","s",";"," ","}"," ","}","\n","c","l","a","s","s"," ","B"," ",">"," ","A"," ","{"," ","m","(",")"," ","{"," ","r","e","t","u","r","n"," ","0",";"," ","}"," ","t","(",")"," ","{"," ","r","e","t","u","r","n"," ","s","u","p","e","r",".","m",";"," ","}"," ","}","\n","v","a","r"," ","b"," ","="," ","B","(",")",";"," ","p","r","i","n","t"," ","b",".","t","(",")","(",")"," ","=","="," ","b",";">>,
  \* 24
  \*     class A { m() { return 1; } }
  \*     class B > A { t() { class D { m() { return 2; } } class C > D { u() { return super.m(); } } return C().u(); } }
  \*     print B().t();
  <<"c","l","a","s","s"," ","A"," ","{"," ","m","(",")"," ","{"," ","r","e","t","u","r","n"," ","1",";"," ","}"," ","}","\n","c","l","a","s","s"," ","B"," ",">"," ","A"," ","{"," ","t","(",")"," ","{"," ","c","l","a","s","s"," ","D"," ","{"," ","m","(",")"," ","{"," ","r","e","t","u","r","n"," ","2",";"," ","}"," ","}"," ","c","l","a","s","s"," ","C"," ",">"," ","D"," ","{"," ","u","(",")"," ","{"," ","r","e","t","u","r","n"," ","s","u","p","e","r",".","m","(",")",";"," ","}"," ","}"," ","r","e","t","u","r","n"," ","C","(",")",".","u","(",")",";"," ","}"," ","}","\n","p","r","i","n","t"," ","B","(",")",".","t","(",")",";">>,
  \* 25
  \*     class A { }
  \*     class B > A { t() { return super.m; } }
  \*     B().t();
  <<"c","l","a","s","s"," ","A"," ","{"," ","}","\n","c","l","a","s","s"," ","B"," ",">"," ","A"," ","{"," ","t","(",")"," ","{"," ","r","e","t","u","r","n"," ","s","u","p","e","r",".","m",";"," ","}"," ","}","\n","B","(",")",".","t","(",")",";">>,
  \* 26
  \*     fun f(a) { print a; }
  \*     f(1);
  \*     f();
  <<"f","u","n"," ","f","(","a",")"," ","{"," ","p","r","i","n","t"," ","a",";"," ","}","\n","f","(","1",")",";","\n","f","(",")",";">>,
  \* 27
  \*     fun f(a) { print a; }
  \*     f(1, 2);
  <<"f","u","n"," ","f","(","a",")"," ","{"," ","p","r","i","n","t"," ","a",";"," ","}","\n","f","(","1",","," ","2",")",";">>,
  \* 28
  \*     class K { init(a) { print a; } }
  \*     K(1);
  \*     K();
  <<"c","l","a","s","s"," ","K"," ","{"," ","i","n","i","t","(","a",")"," ","{"," ","p","r","i","n","t"," ","a",";"," ","}"," ","}","\n","K","(","1",")",";","\n","K","(",")",";">>,
  \* 29
  \*     class A { init(a) { print a; } }
  \*     class B > A { }
  \*     B(1);
  \*     B(1, 2);
  <<"c","l","a","s","s"," ","A"," ","{"," ","i","n","i","t","(","a",")"," ","{"," ","p","r","i","n","t"," ","a",";"," ","}"," ","}","\n","c","l","a","s","s"," ","B"," ",">"," ","A"," ","{"," ","}","\n","B","(","1",")",";","\n","B","(","1",","," ","2",")",";">>,
  \* 30
  \*     class E { }
  \*     E();
  \*     E(1);
  <<"c","l","a","s","s"," ","E"," ","{"," ","}","\n","E","(",")",";","\n","E","(","1",")",";">>,
  \* 31
  \*     fun s() { print "s"; return 1; }
  \*     print nil or s(); print 1 or s(); print 1 and s(); print nil and s();
  \*     print nil or "x"; print false and 2;
  <<"f","u","n"," ","s","(",")"," ","{"," ","p","r","i","n","t"," ","\"","s","\"",";"," ","r","e","t","u","r","n"," ","1",";"," ","}","\n","p","r","i","n","t"," ","n","i","l"," ","o","r"," ","s","(",")",";"," ","p","r","i","n","t"," ","1"," ","o","r"," ","s","(",")",";"," ","p","r","i","n","t"," ","1"," ","a","n","d"," ","s","(",")",";"," ","p","r","i","n","t"," ","n","i","l"," ","a","n","d"," ","s","(",")",";","\n","p","r","i","n","t"," ","n","i","l"," ","o","r"," ","\"","x","\"",";"," ","p","r","i","n","t"," ","f","a","l","s","e"," ","a","n","d"," ","2",";">>,
  \* 32
  \*     var i = 5;
  \*     for (i = 0; i < 0; i = i + 1) print i;
  <<"v","a","r"," ","i"," ","="," ","5",";","\n","f","o","r"," ","(","i"," ","="," ","0",";"," ","i"," ","<"," ","0",";"," ","i"," ","="," ","i"," ","+"," ","1",")"," ","p","r","i","n","t"," ","i",";">>,
  \* 33
  \*     var i = 5;
  \*     for (i = 0; i < 1; i = i + 1) print i;
  <<"v","a","r"," ","i"," ","="," ","5",";","\n","f","o","r"," ","(","i"," ","="," ","0",";"," ","i"," ","<"," ","1",";"," ","i"," ","="," ","i"," ","+"," ","1",")"," ","p","r","i","n","t"," ","i",";">>,
  \* 34
  \*     var i = 5;
  \*     for (i = 0; i < 10; i = i + 1) print i;
  <<"v","a","r"," ","i"," ","="," ","5",";","\n","f","o","r"," ","(","i"," ","="," ","0",";"," ","i"," ","<"," ","1","0",";"," ","i"," ","="," ","i"," ","+"," ","1",")"," ","p","r","i","n","t"," ","i",";">>,
  \* 35
  \*     for (var i = 0; i < 0; i = i + 1) print i;
  \*
  <<"f","o","r"," ","(","v","a","r"," ","i"," ","="," ","0",";"," ","i"," ","<"," ","0",";"," ","i"," ","="," ","i"," ","+"," ","1",")"," ","p","r","i","n","t"," ","i",";","\n">>,
  \* 36
  \*     for (var i = 0; i < 1; i = i + 1) print i;
  \*
  <<"f","o","r"," ","(","v","a","r"," ","i"," ","="," ","0",";"," ","i"," ","<"," ","1",";"," ","i"," ","="," ","i"," ","+"," ","1",")"," ","p","r","i","n","t"," ","i",";","\n">>,
  \* 37
  \*     for (var i = 0; i < 10; i = i + 1) print i;
  \*
  <<"f","o","r"," ","(","v","a","r"," ","i"," ","="," ","0",";"," ","i"," ","<"," ","1","0",";"," ","i"," ","="," ","i"," ","+"," ","1",")"," ","p","r","i","n","t"," ","i",";","\n">>,
  \* 38
  \*     if (true) print 1; else print 2;
  \*
  <<"i","f"," ","(","t","r","u","e",")"," ","p","r","i","n","t"," ","1",";"," ","e","l","s","e"," ","p","r","i","n","t"," ","2",";","\n">>,
  \* 39
  \*     if (false) print 1; else print 2;
  \*
  <<"i","f"," ","(","f","a","l","s","e",")"," ","p","r","i","n","t"," ","1",";"," ","e","l","s","e"," ","p","r","i","n","t"," ","2",";","\n">>,
  \* 40
  \*     if (true) print 1;
  \*     if (false) print 2;
  <<"i","f"," ","(","t","r","u","e",")"," ","p","r","i","n","t"," ","1",";","\n","i","f"," ","(","f","a","l","s","e",")"," ","p","r","i","n","t"," ","2",";">>,
  \* 41
  \*     print "hi"; print 12; print true; print false; print nil;
  \*     fun f() {} print f; class K {} print K; print K();
  \*     print 1 + 2 * 3;
  <<"p","r","i","n","t"," ","\"","h","i","\"",";"," ","p","r","i","n","t"," ","1","2",";"," ","p","r","i","n","t"," ","t","r","u","e",";"," ","p","r","i","n","t"," ","f","a","l","s","e",";"," ","p","r","i","n","t"," ","n","i","l",";","\n","f","u","n"," ","f","(",")"," ","{","}"," ","p","r","i","n","t"," ","f",";"," ","c","l","a","s","s"," ","K"," ","{","}"," ","p","r","i","n","t"," ","K",";"," ","p","r","i","n","t"," ","K","(",")",";","\n","p","r","i","n","t"," ","1"," ","+"," ","2"," ","*"," ","3",";">>,
  \* 42
  \*     print 1 + "x";
  <<"p","r","i","n","t"," ","1"," ","+"," ","\"","x","\"",";">>,
  \* 43
  \*     print ;
  <<"p","r","i","n","t"," ",";">>,
  \* 44
  \*     return 1;
  <<"r","e","t","u","r","n"," ","1",";">>,
  \* 45
  \*     print 1; @ print 2;
  <<"p","r","i","n","t"," ","1",";"," ","@"," ","p","r","i","n","t"," ","2",";">>,
  \* 46
  \*     print 1; "abc
  <<"p","r","i","n","t"," ","1",";"," ","\"","a","b","c">>,
  \* 47
  \*     print "a
  <<"p","r","i","n","t"," ","\"","a">>,
  \* 48
  \*     fun f() { if (true) { while (true) { return 1; print 2; } print 3; } print 4; }
  \*     print f(); print 9;
  <<"f","u","n"," ","f","(",")"," ","{"," ","i","f"," ","(","t","r","u","e",")"," ","{"," ","w","h","i","l","e"," ","(","t","r","u","e",")"," ","{"," ","r","e","t","u","r","n"," ","1",";"," ","p","r","i","n","t"," ","2",";"," ","}"," ","p","r","i","n","t"," ","3",";"," ","}"," ","p","r","i","n","t"," ","4",";"," ","}","\n","p","r","i","n","t"," ","f","(",")",";"," ","p","r","i","n","t"," ","9",";">>,
  \* 49
  \*     fun g() { fun f() { return 1; print 2; } print f(); return 7; print 8; }
  \*     print g(); print 9;
  <<"f","u","n"," ","g","(",")"," ","{"," ","f","u","n"," ","f","(",")"," ","{"," ","r","e","t","u","r","n"," ","1",";"," ","p","r","i","n","t"," ","2",";"," ","}"," ","p","r","i","n","t"," ","f","(",")",";"," ","r","e","t","u","r","n"," ","7",";"," ","p","r","i","n","t"," ","8",";"," ","}","\n","p","r","i","n","t"," ","g","(",")",";"," ","p","r","i","n","t"," ","9",";">>,
  \* 50
  \*     print this;
  <<"p","r","i","n","t"," ","t","h","i","s",";">>,
  \* 51
  \*     fun f() { return this; }
  <<"f","u","n"," ","f","(",")"," ","{"," ","r","e","t","u","r","n"," ","t","h","i","s",";"," ","}">>,
  \* 52
  \*     print super.m;
  <<"p","r","i","n","t"," ","s","u","p","e","r",".","m",";">>,
  \* 53
  \*     class A { m() { return super.m; } }
  <<"c","l","a","s","s"," ","A"," ","{"," ","m","(",")"," ","{"," ","r","e","t","u","r","n"," ","s","u","p","e","r",".","m",";"," ","}"," ","}">>,
  \* 54
  \*     class A { }
  \*     class B > A { t() { class D { n() { return this; } } return super.t; } }
  <<"c","l","a","s","s"," ","A"," ","{"," ","}","\n","c","l","a","s","s"," ","B"," ",">"," ","A"," ","{"," ","t","(",")"," ","{"," ","c","l","a","s","s"," ","D"," ","{"," ","n","(",")"," ","{"," ","r","e","t","u","r","n"," ","t","h","i","s",";"," ","}"," ","}"," ","r","e","t","u","r","n"," ","s","u","p","e","r",".","t",";"," ","}"," ","}">>,
  \* 55
  \*     class A { t() { class D { } class E > D { } return super.t; } }
  <<"c","l","a","s","s"," ","A"," ","{"," ","t","(",")"," ","{"," ","c","l","a","s","s"," ","D"," ","{"," ","}"," ","c","l","a","s","s"," ","E"," ",">"," ","D"," ","{"," ","}"," ","r","e","t","u","r","n"," ","s","u","p","e","r",".","t",";"," ","}"," ","}">>,
  \* 56
  \*     class A { }
  \*     class B > A { t() { class D { n() { return super.n; } } } }
  <<"c","l","a","s","s"," ","A"," ","{"," ","}","\n","c","l","a","s","s"," ","B"," ",">"," ","A"," ","{"," ","t","(",")"," ","{"," ","c","l","a","s","s"," ","D"," ","{"," ","n","(",")"," ","{"," ","r","e","t","u","r","n"," ","s","u","p","e","r",".","n",";"," ","}"," ","}"," ","}"," ","}">>,
  \* 57
  \*     class A { m() { } }
  \*     print this;
  <<"c","l","a","s","s"," ","A"," ","{"," ","m","(",")"," ","{"," ","}"," ","}","\n","p","r","i","n","t"," ","t","h","i","s",";">>,
  \* 58
  \*     class A { }
  \*     class B > A { }
  \*     fun f() { return super.m; }
  <<"c","l","a","s","s"," ","A"," ","{"," ","}","\n","c","l","a","s","s"," ","B"," ",">"," ","A"," ","{"," ","}","\n","f","u","n"," ","f","(",")"," ","{"," ","r","e","t","u","r","n"," ","s","u","p","e","r",".","m",";"," ","}">>,
  \* 59
  \*     class A { m() { fun g() { return this; } } }
  <<"c","l","a","s","s"," ","A"," ","{"," ","m","(",")"," ","{"," ","f","u","n"," ","g","(",")"," ","{"," ","r","e","t","u","r","n"," ","t","h","i","s",";"," ","}"," ","}"," ","}">>,
  \* 60
  \*     fun f() { return 1; }
  \*     return 2;
  <<"f","u","n"," ","f","(",")"," ","{"," ","r","e","t","u","r","n"," ","1",";"," ","}","\n","r","e","t","u","r","n"," ","2",";">>,
  \* 61
  \*     class A { m() { return 1; } }
  \*     return;
  <<"c","l","a","s","s"," ","A"," ","{"," ","m","(",")"," ","{"," ","r","e","t","u","r","n"," ","1",";"," ","}"," ","}","\n","r","e","t","u","r","n",";">>,
  \* 62
  \*     class A { init() { fun g() { return 1; } return; } }
  <<"c","l","a","s","s"," ","A"," ","{"," ","i","n","i","t","(",")"," ","{"," ","f","u","n"," ","g","(",")"," ","{"," ","r","e","t","u","r","n"," ","1",";"," ","}"," ","r","e","t","u","r","n",";"," ","}"," ","}">>,
  \* 63
  \*     class init { m() { fun g() { return 1; } } }
  <<"c","l","a","s","s"," ","i","n","i","t"," ","{"," ","m","(",")"," ","{"," ","f","u","n"," ","g","(",")"," ","{"," ","r","e","t","u","r","n"," ","1",";"," ","}"," ","}"," ","}">>,
  \* 64
  \*     { if (true) return 1; }
  <<"{"," ","i","f"," ","(","t","r","u","e",")"," ","r","e","t","u","r","n"," ","1",";"," ","}">>,
  \* 65
  \*     fun f() { { while (true) { return 1; } } }
  <<"f","u","n"," ","f","(",")"," ","{"," ","{"," ","w","h","i","l","e"," ","(","t","r","u","e",")"," ","{"," ","r","e","t","u","r","n"," ","1",";"," ","}"," ","}"," ","}">>,
  \* 66
  \*     { var a = 1; var a = 2; }
  <<"{"," ","v","a","r"," ","a"," ","="," ","1",";"," ","v","a","r"," ","a"," ","="," ","2",";"," ","}">>,
  \* 67
  \*     var a = 1; var a = 2; print a;
  <<"v","a","r"," ","a"," ","="," ","1",";"," ","v","a","r"," ","a"," ","="," ","2",";"," ","p","r","i","n","t"," ","a",";">>,
  \* 68
  \*     fun f(a) { var a = 1; }
  <<"f","u","n"," ","f","(","a",")"," ","{"," ","v","a","r"," ","a"," ","="," ","1",";"," ","}">>,
  \* 69
  \*     fun f(a, a) { }
  <<"f","u","n"," ","f","(","a",","," ","a",")"," ","{"," ","}">>,
  \* 70
  \*     { var a = 1; { var a = 2; } }
  <<"{"," ","v","a","r"," ","a"," ","="," ","1",";"," ","{"," ","v","a","r"," ","a"," ","="," ","2",";"," ","}"," ","}">>,
  \* 71
  \*     { fun f() { } var f = 1; }
  <<"{"," ","f","u","n"," ","f","(",")"," ","{"," ","}"," ","v","a","r"," ","f"," ","="," ","1",";"," ","}">>,
  \* 72
  \*     { class C { } class C { } }
  <<"{"," ","c","l","a","s","s"," ","C"," ","{"," ","}"," ","c","l","a","s","s"," ","C"," ","{"," ","}"," ","}">>,
  \* 73
  \*     { var a = 1; fun a() { } }
  <<"{"," ","v","a","r"," ","a"," ","="," ","1",";"," ","f","u","n"," ","a","(",")"," ","{"," ","}"," ","}">>,
  \* 74
  \*     fun f(a) { { var a = 1; } }
  <<"f","u","n"," ","f","(","a",")"," ","{"," ","{"," ","v","a","r"," ","a"," ","="," ","1",";"," ","}"," ","}">>,
  \* 75
  \*     fun f() { } fun f() { } class C { } class C { } var f; var C;
  <<"f","u","n"," ","f","(",")"," ","{"," ","}"," ","f","u","n"," ","f","(",")"," ","{"," ","}"," ","c","l","a","s","s"," ","C"," ","{"," ","}"," ","c","l","a","s","s"," ","C"," ","{"," ","}"," ","v","a","r"," ","f",";"," ","v","a","r"," ","C",";">>,
  \* 76
  \*     class A { m() { return 1; } }
  \*     class B > A { }
  \*     class C > B { }
  \*     print C().m();
  <<"c","l","a","s","s"," ","A"," ","{"," ","m","(",")"," ","{"," ","r","e","t","u","r","n"," ","1",";"," ","}"," ","}","\n","c","l","a","s","s"," ","B"," ",">"," ","A"," ","{"," ","}","\n","c","l","a","s","s"," ","C"," ",">"," ","B"," ","{"," ","}","\n","p","r","i","n","t"," ","C","(",")",".","m","(",")",";">>,
  \* 77
  \*     class A { }
  \*     var B = A;
  \*     class A > B { }
  \*     print A;
  <<"c","l","a","s","s"," ","A"," ","{"," ","}","\n","v","a","r"," ","B"," ","="," ","A",";","\n","c","l","a","s","s"," ","A"," ",">"," ","B"," ","{"," ","}","\n","p","r","i","n","t"," ","A",";">>
>>

\* the sources typed at the prompt: each is one line
Lines == {1, 2, 3, 4, 5, 6, 7, 8, 9, 10, 11, 12, 13, 14, 15, 16, 20, 42, 43, 44, 45}

-----------------------------------------------------------------------------
(* The driver as a state machine *)

\* the Interpreter the variables hold
Interp ==
    [envs |-> envs, instances |-> instances, classes |-> classes, locals |-> locals,
     environment |-> environment, output |-> output, log |-> log,
     resolved |-> resolved, fuel |-> MaxFuel, res |-> "Ok", err |-> "none", val |-> Nil]

Store(I) ==
    /\ envs' = I.envs
    /\ instances' = I.instances
    /\ classes' = I.classes
    /\ locals' = I.locals
    /\ environment' = I.environment
    /\ output' = I.output
    /\ log' = I.log
    /\ resolved' = I.resolved
    /\ result' = [res |-> I.res, err |-> I.err]

\* Lox::new
Fresh ==
    /\ envs = Interpreter_new.envs
    /\ instances = Interpreter_new.instances
    /\ classes = Interpreter_new.classes
    /\ locals = Interpreter_new.locals
    /\ environment = Interpreter_new.environment
    /\ output = <<>>
    /\ log = <<>>
    /\ resolved = EmptyMap
    /\ exit_code = -1
    /\ runs = <<>>
    /\ result = [res |-> "Ok", err |-> "none"]

\* before main looks at the arguments
Init ==
    /\ Fresh
    /\ status = "start"
    /\ scanner = Scanner_new(<<>>)
    /\ parser = Parser_new(<<>>)

\* main: no argument starts the prompt loop, one names the script, more is
\* a usage error (main returns Err, the process exits with failure)
Main(argc) ==
    /\ status = "start"
    /\ status' = IF argc = 0 THEN "prompt" ELSE IF argc = 1 THEN "file" ELSE "exited"
    /\ exit_code' = IF argc > 1 THEN 1 ELSE exit_code
    /\ UNCHANGED <<envs, instances, classes, locals, environment, output, log,
                   resolved, runs, result, scanner, parser>>

\* what the process keeps of a run: a panic ends it with exit code 101, an
\* exhausted stack aborts it (SIGABRT, 134), otherwise it goes on as `then`
\* with exit code `code`
Ran(I, then, code) ==
    /\ I.res # "Beyond"
    /\ Store(I)
    /\ status' = IF I.res = "Panic" THEN "crashed" ELSE then
    /\ exit_code' = IF I.res # "Panic" THEN code
                    ELSE IF I.err = "stack overflow" THEN 134 ELSE 101
    /\ UNCHANGED <<scanner, parser>>

\* the number the occurrences of source i start from
Origin(i) == 1000 * i

\* read_line: the line with its newline
read_line(i) == Append(Sources[i], "\n")

\* one turn of the loop of Lox::run_prompt: read a line and run it; an Err
\* of run is printed and the loop goes on
RunPrompt(i) ==
    /\ status = "prompt"
    /\ Len(runs) < MaxRuns
    /\ Let(Lox_run(Interp, read_line(i), Origin(i)), LAMBDA r :
           Ran(r.I, "prompt", exit_code))
    /\ runs' = Append(runs, i)

\* Lox::run_file and the return of main: an Err of run makes run_file, and
\* then main, return Err, which ends the process with exit code 1
RunFile(i) ==
    /\ status = "file"
    /\ Let(Lox_run(Interp, Sources[i], Origin(i)), LAMBDA r :
           Ran(r.I, "exited", IF r.returned = "Err" THEN 1 ELSE 0))
    /\ runs' = Append(runs, i)

Next ==
    \/ \E argc \in 0..2 : Main(argc)
    \/ \E i \in Lines : RunPrompt(i)
    \/ \E i \in 1..Len(Sources) : RunFile(i)

Spec == Init /\ [][Next]_vars

-----------------------------------------------------------------------------
(* The scanner alone: Scanner::scan_tokens on every source of at most      *)
(* MaxSource bytes, one turn of its loop per step                          *)

ScanBytes ==
    {"(", "=", "/", ".", "\"", "\n", " ", "1", "o", "r", "@", "\\xC3", "\\xA9", "\\xAA"}

\* a String holds valid UTF-8
ScanSources ==
    {s \in UNION {[1..n -> ScanBytes] : n \in 0..MaxSource} : utf8_ok(s, 0, Len(s))}

\* Scanner::new(&bytes)
ScanInit ==
    /\ Fresh
    /\ status = "scanning"
    /\ scanner \in {Scanner_new(s) : s \in ScanSources}
    /\ parser = Parser_new(<<>>)

\* one turn of `while !self.is_at_end()`; a panic ends the process
ScanTurn ==
    /\ status = "scanning"
    /\ ~Scanner_is_at_end(scanner)
    /\ scanner' = scan_turn(scanner)
    /\ status' = IF scanner'.panic THEN "crashed" ELSE "scanning"
    /\ UNCHANGED <<envs, instances, classes, locals, environment, output, log,
                   resolved, exit_code, runs, result, parser>>

\* the loop is left: the EOF token is pushed and the tokens are returned
ScanEnd ==
    /\ status = "scanning"
    /\ Scanner_is_at_end(scanner)
    /\ scanner' = push_eof(scanner)
    /\ status' = "scanned"
    /\ UNCHANGED <<envs, instances, classes, locals, environment, output, log,
                   resolved, exit_code, runs, result, parser>>

ScanNext == ScanTurn \/ ScanEnd

ScanSpec == ScanInit /\ [][ScanNext]_vars

-----------------------------------------------------------------------------
(* The parser alone: Parser::parse on the tokens scan_tokens returns for   *)
(* every text of at most MaxTokens words, for the texts of ParseSources    *)
(* and of Sources, and for declarations and calls with about MaxArgs       *)
(* parameters or arguments; one turn of the loop of parse per step         *)

Words ==
    <<<<"a">>,
      <<"1">>,
      <<";">>,
      <<"(">>,
      <<")">>,
      <<"{">>,
      <<"}">>,
      <<"=">>,
      <<".">>,
      <<",">>,
      <<"p","r","i","n","t">>,
      <<"v","a","r">>,
      <<"f","u","n">>,
      <<"c","l","a","s","s">>,
      <<"i","f">>,
      <<"e","l","s","e">>,
      <<"r","e","t","u","r","n">>,
      <<"f","o","r">>>>

\* the words ws, a space between them
RECURSIVE Text(_)
Text(ws) ==
    IF ws = <<>> THEN <<>>
    ELSE IF Len(ws) = 1 THEN Words[ws[1]]
    ELSE Words[ws[1]] \o <<" ">> \o Text(Tail(ws))

ShortTexts == {Text(ws) : ws \in UNION {[1..n -> DOMAIN Words] : n \in 0..MaxTokens}}

ParseSources == <<
  \*     a.b = 1;
  <<"a",".","b"," ","="," ","1",";">>,
  \*     a = b = c;
  <<"a"," ","="," ","b"," ","="," ","c",";">>,
  \*     f().x = 1;
  <<"f","(",")",".","x"," ","="," ","1",";">>,
  \*     (a) = 1;
  <<"(","a",")"," ","="," ","1",";">>,
  \*     a.b.c = d = 2;
  <<"a",".","b",".","c"," ","="," ","d"," ","="," ","2",";">>,
  \*     a + b = c;
  <<"a"," ","+"," ","b"," ","="," ","c",";">>,
  \*     f() = 1;
  <<"f","(",")"," ","="," ","1",";">>,
  \*     { print 1 }; var a; print 2;
  <<"{"," ","p","r","i","n","t"," ","1"," ","}",";"," ","v","a","r"," ","a",";"," ","p","r","i","n","t"," ","2",";">>,
  \*     { a = ; } class C { } print 2;
  <<"{"," ","a"," ","="," ",";"," ","}"," ","c","l","a","s","s"," ","C"," ","{"," ","}"," ","p","r","i","n","t"," ","2",";">>,
  \*     fun f( { print 1; } print 2;
  <<"f","u","n"," ","f","("," ","{"," ","p","r","i","n","t"," ","1",";"," ","}"," ","p","r","i","n","t"," ","2",";">>,
  \*     for (;;) { print 1 + ; a; } var b;
  <<"f","o","r"," ","(",";",";",")"," ","{"," ","p","r","i","n","t"," ","1"," ","+"," ",";"," ","a",";"," ","}"," ","v","a","r"," ","b",";">>,
  \*     class C { m() { return ; } n( { } } print 1;
  <<"c","l","a","s","s"," ","C"," ","{"," ","m","(",")"," ","{"," ","r","e","t","u","r","n"," ",";"," ","}"," ","n","("," ","{"," ","}"," ","}"," ","p","r","i","n","t"," ","1",";">>
>>

\* n times `a`, or n times `1`, with commas between
List(c, n) == [j \in 1..(2 * n - 1) |-> IF j % 2 = 1 THEN c ELSE ","]

\* `fun f(a,..,a) {}`, `class C { m(a,..,a) {} }` and `f(1,..,1);`
LongTexts ==
    UNION {{<<"f", "u", "n", " ", "f", "(">> \o List("a", n) \o <<")", " ", "{", "}">>,
            <<"c", "l", "a", "s", "s", " ", "C", " ", "{", " ", "m", "(">>
                \o List("a", n) \o <<")", " ", "{", "}", " ", "}">>,
            <<"f", "(">> \o List("1", n) \o <<")", ";">>}
           : n \in {MaxArgs - 1, MaxArgs, MaxArgs + 1}}

ParseTexts ==
    ShortTexts \cup LongTexts
        \cup {ParseSources[i] : i \in DOMAIN ParseSources}
        \cup {Sources[i] : i \in DOMAIN Sources}

\* Parser::new(scanner.scan_tokens())
ParseInit ==
    /\ Fresh
    /\ status = "parsing"
    /\ scanner = Scanner_new(<<>>)
    /\ parser \in {Parser_new(scan_tokens(Scanner_new(s)).tokens) : s \in ParseTexts}

\* one turn of `while !self.is_at_end()`: an Err of declaration makes parse
\* return it, a panic ends the process
ParseTurn ==
    /\ status = "parsing"
    /\ ~Parser_is_at_end(parser)
    /\ parser' = parse_turn(parser)
    /\ status' = IF parser'.res = "Ok" THEN "parsing"
                 ELSE IF parser'.res = "Err" THEN "failed" ELSE "crashed"
    /\ UNCHANGED <<envs, instances, classes, locals, environment, output, log,
                   resolved, exit_code, runs, result, scanner>>

\* the loop is left: parse returns Ok(statements)
ParseEnd ==
    /\ status = "parsing"
    /\ Parser_is_at_end(parser)
    /\ parser' = Parsed(parser, parser.statements)
    /\ status' = "parsed"
    /\ UNCHANGED <<envs, instances, classes, locals, environment, output, log,
                   resolved, exit_code, runs, result, scanner>>

ParseNext == ParseTurn \/ ParseEnd

ParseSpec == ParseInit /\ [][ParseNext]_vars

-----------------------------------------------------------------------------
(* Properties *)

Max(S) == CHOOSE x \in S : \A y \in S : x >= y

\* the events of the last run that evaluate a variable use
Uses == {j \in DOMAIN log : log[j].op \in {"look_up_variable", "assign"}}

IsPrint(ev) == ev.op = "print"

\* the values the last run printed, in order
Printed ==
    LET ps == SelectSeq(log, IsPrint) IN [j \in 1..Len(ps) |-> ps[j].value]

LastRun == IF runs = <<>> THEN 0 ELSE runs[Len(runs)]

\* C1: every evaluation of a variable use to which the resolver assigned
\* distance d reads or writes the binding held by the environment exactly d
\* parent hops above the current environment.
C1_LexicalDistance ==
    \A j \in Uses :
        log[j].assigned >= 0 =>
            /\ log[j].ok
            /\ log[j].found_in = log[j].assigned_target

\* C2: the depth the resolver records for a use is the distance to the
\* innermost scope on the stack that declares the name.
C2_InnermostScope ==
    \A j \in DOMAIN log :
        (log[j].op = "resolve_local" /\ log[j].found) =>
            log[j].depth = Len(log[j].scopes)
                           - Max(Holding(log[j].scopes, log[j].name.lexeme))

\* C3: resolving a variable read inside a local scope ends without error or
\* crash when the innermost scope does not declare the name, and reports
\* ReadInitializer exactly when the innermost scope holds the name as
\* declared but not yet defined.
C3_ReadResolves ==
    \A j \in DOMAIN log :
        log[j].op = "visit_variable_expr" =>
            LET sc == log[j].scopes
                n == log[j].name.lexeme
                here == Len(sc) > 0 /\ Has(sc[Len(sc)], n)
            IN  /\ (Len(sc) > 0 /\ ~here) => log[j].outcome = "Ok"
                /\ log[j].outcome = "ReadInitializer" <=> (here /\ ~sc[Len(sc)][n])

\* C4: the counter closure returned by makeCounter (source 17) shares the
\* live binding of i between its calls: the three calls print 1, 2, 3.
C4_ClosureCounter ==
    LastRun = 17 =>
        /\ result.res = "Ok"
        /\ Printed = <<Number(1), Number(2), Number(3)>>

\* C5: a method obtained by property access on an instance is bound to
\* that instance itself.
C5_BoundToReceiver ==
    \A j \in DOMAIN log :
        log[j].op = "Instance_get" => log[j].this = log[j].receiver

\* C6: the distance used at run time for an occurrence is the one the
\* resolver computed for that occurrence; a use the resolver left
\* unresolved goes to the global environment.
C6_OccurrenceDistance ==
    \A j \in Uses :
        /\ log[j].assigned = -1 => ~log[j].local
        /\ log[j].assigned >= 0 => (log[j].local /\ log[j].distance = log[j].assigned)

\* C7: get_at / assign_at succeed only when the environment exactly
\* `distance` hops up holds the name itself, and act on that environment.
C7_ExactEnvironment ==
    \A j \in Uses :
        log[j].local =>
            /\ ~log[j].direct => ~log[j].ok
            /\ log[j].ok => log[j].found_in = log[j].target

\* the key of a locals entry moved to line ln
OnLine(k, ln) == [k EXCEPT !.line = ln]

C9_EnvironmentRestored ==
    /\ \A j \in DOMAIN log :
          log[j].op = "execute_block" => log[j].after = log[j].previous
    /\ status # "crashed" => environment = Globals

\* a run in which blocks ended normally, by Return and by a runtime error
C9_Witness ==
    /\ \E j \in DOMAIN log : log[j].op = "execute_block" /\ log[j].outcome = "Return"
    /\ \E j \in DOMAIN log : log[j].op = "execute_block" /\ log[j].outcome = "Ok"
    /\ \E j \in DOMAIN log :
          log[j].op = "execute_block" /\ log[j].outcome = "UnsupportedAddOp"
    /\ environment = Globals

\* C10: a call of an initializer yields the instance its closure binds as
\* `this`, whether the body completed or executed `return;`; a class call
\* yields the instance its init received, with the fields init set.
C10_InitializerYieldsThis ==
    /\ \A j \in DOMAIN log :
          log[j].op = "initializer_call" =>
              /\ log[j].this.ok
              /\ log[j].this.val.t = "Instance"
              /\ log[j].result = log[j].this
    /\ \A j \in DOMAIN log :
          (log[j].op = "Class_call" /\ log[j].with_init) =>
              log[j].init_result = InstanceObj(log[j].instance)
    /\ LastRun = 16 => Printed = <<Number(1)>>
    /\ runs = <<14, 15>> => Printed = <<Number(3), Number(4), Number(1)>>

\* init was called by construction and on an existing instance, ending
\* normally and by `return;`
C10_Witness ==
    /\ \E j \in DOMAIN log : log[j].op = "Instance_get" /\ log[j].name = "init"
    /\ \E j \in DOMAIN log : log[j].op = "initializer_call" /\ log[j].outcome = "Return"
    /\ \E j \in DOMAIN log : log[j].op = "initializer_call" /\ log[j].outcome = "Ok"
    /\ \E j \in DOMAIN log : log[j].op = "Class_call" /\ log[j].with_init

\* C11: a method is resolved as an initializer exactly when the method's
\* own name is `init`, whatever the class is called: `return 1;` in method
\* init of class A (source 21) is refused with ReturnInitializer, `return 1;`
\* in method m of a class named init (source 22) is accepted.
C11_InitializerByMethodName ==
    /\ \A j \in DOMAIN log :
          log[j].op = "resolve_method" =>
              (log[j].declaration = "Initializer" <=> log[j].method = "init")
    /\ LastRun = 21 => result = [res |-> "Err", err |-> "ReturnInitializer"]
    /\ LastRun = 22 => result.res = "Ok"

\* C12: `super.m` in a method of a class declared with a superclass takes
\* m from that superclass (the binding of `super` nearest to the method) and
\* binds it to the instance that `this` denotes there; with no m on the
\* superclass or its ancestors the result is UndefinedProperty.  In source
\* 24 `super.m()` in class C > D calls D's m and prints 2.
C12_SuperOfEnclosingClass ==
    /\ \A j \in DOMAIN log :
          log[j].op = "super" =>
              /\ log[j].superclass = log[j].nearest_super
              /\ log[j].object = log[j].nearest_this
    /\ LastRun = 24 => Printed = <<Number(2)>>
    /\ LastRun = 25 => result = [res |-> "Err", err |-> "UndefinedProperty"]

\* the calls of a Lox function or a class in the last run
Calls == {j \in DOMAIN log : log[j].op = "call" /\ log[j].callee \in {"LoxFunction", "Class"}}

\* the callee ran: a function call made its environment, a class call its
\* instance
Invoked(ev) == ev.envs > 0 \/ ev.instances > 0

\* C13: a call with n arguments invokes the function or class iff n is its
\* arity; otherwise the call ends with ArityError, and no statement of the
\* body ran, nothing was printed, no environment and no instance was made.
C13_ArityChecked ==
    \A j \in Calls :
        /\ Invoked(log[j]) <=> log[j].size = log[j].arity
        /\ log[j].size # log[j].arity =>
              /\ log[j].outcome = "ArityError"
              /\ log[j].events = 0
              /\ log[j].output = 0
              /\ log[j].instances = 0

\* a function and a class (one with init, one inheriting it, one without)
\* were called with the right number of arguments and with a wrong one
C13_Witness ==
    /\ LastRun \in {26, 27, 28, 29, 30}
    /\ result.err = "ArityError"
    /\ \E j \in Calls : log[j].size # log[j].arity
    /\ LastRun \in {26, 28, 29} =>
          \E j \in Calls : log[j].size = log[j].arity /\ log[j].arity = 1
                           /\ log[j].output = 1

\* C14: `a or b` evaluates b iff a is falsy and `a and b` iff a is truthy;
\* when a decides, the result is the value of a itself and nothing of b
\* happened; otherwise the result is the value of b.  Source 31 prints the
\* operand values, with the "s" of s() only where s() is evaluated.
C14_ShortCircuit ==
    /\ \A j \in DOMAIN log :
          log[j].op = "logical" =>
              LET decided == IF log[j].operator = "Or" THEN is_truthy(log[j].left)
                             ELSE ~is_truthy(log[j].left)
              IN  /\ log[j].spent > 0 <=> ~decided
                  /\ decided => /\ log[j].result = log[j].left
                                /\ log[j].events = 0
                                /\ log[j].output = 0
    /\ LastRun = 31 =>
          Printed = <<String("s"), Number(1), Number(1), String("s"), Number(1), Nil,
                      String("x"), Bool(FALSE)>>

\* both operators met a truthy and a falsy left operand, and a right operand
\* with a side effect was evaluated
C14_Witness ==
    /\ \A o \in {"Or", "And"} : \A b \in BOOLEAN :
          \E j \in DOMAIN log : /\ log[j].op = "logical"
                                /\ log[j].operator = o
                                /\ is_truthy(log[j].left) = b
    /\ \E j \in DOMAIN log : log[j].op = "logical" /\ log[j].output > 0

\* the numbers 0..n-1 as print writes them one after the other
UpTo(n) == [j \in 1..n |-> Number(j - 1)]

\* C15: `for (i = 0; i < N; i = i + 1) print i;` (sources 32, 33, 34, after
\* `var i = 5;`) and `for (var i = 0; i < N; i = i + 1) print i;` (sources
\* 35, 36, 37) are parsed and resolved without error and print 0..N-1, for
\* N = 0, 1 and 10.
C15_ForLoopCounts ==
    /\ LastRun \in 32..37 =>
          /\ \A j \in DOMAIN log : log[j].op \notin {"parse_error", "resolve_error"}
          /\ result.res = "Ok"
    /\ LastRun \in {32, 35} => Printed = UpTo(0)
    /\ LastRun \in {33, 36} => Printed = UpTo(1)
    /\ LastRun \in {34, 37} => Printed = UpTo(10)

\* C16: `if (c) s1 else s2` is parsed without error, `else` being taken as
\* part of the if statement, and exactly one branch runs: `if (true) print 1;
\* else print 2;` (source 38) prints 1, `if (false) print 1; else print 2;`
\* (source 39) prints 2.
C16_IfElse ==
    /\ LastRun \in {38, 39} =>
          /\ \A j \in DOMAIN log : log[j].op # "parse_error"
          /\ result.res = "Ok"
    /\ LastRun = 38 => Printed = <<Number(1)>>
    /\ LastRun = 39 => Printed = <<Number(2)>>

\* C17: print writes the plain string form of the value, the one Display
\* gives: source 41 writes hi, 12, true, false, nil for the string, the
\* number, the booleans and nil, and 7 for `print 1 + 2 * 3;`.
C17_PrintsPlainForm ==
    /\ \A j \in DOMAIN log :
          log[j].op = "print" => log[j].written = log[j].display
    /\ LastRun = 41 =>
          /\ Len(output) = 9
          /\ SubSeq(output, 1, 5) = <<"hi", "12", "true", "false", "nil">>
          /\ output[9] = "7"

\* the last run reported an error at some stage
ScanErrors == {j \in DOMAIN log : log[j].op = "scan_error"}

ErrorReported == ScanErrors # {} \/ result.res # "Ok"

\* C18: a script run ends with exit code 0 exactly when neither scanning,
\* parsing, resolution nor execution reported an error; `print 1 + "x";`
\* (source 42) ends with a non-zero exit code.
C18_ExitCodeTellsFailure ==
    /\ (status \in {"exited", "crashed"} /\ runs # <<>>) =>
          (exit_code = 0 <=> ~ErrorReported)
    /\ (status = "exited" /\ LastRun = 42) => exit_code # 0

\* C19: a run whose source holds an unknown character or an unterminated
\* string ends with the scan error: nothing of the source is parsed,
\* resolved or executed, and no print of it writes anything.
C19_ScanErrorEndsRun ==
    ScanErrors # {} =>
        /\ \A j \in DOMAIN log : log[j].op = "scan_error"
        /\ Printed = <<>>
        /\ result.res # "Ok"

\* C20: at the prompt, a line that fails (a scan, parse, resolve or runtime
\* error, or a failure inside nested blocks or calls) leaves the loop
\* running with the current environment the global one and every global
\* defined before still defined.
C20_PromptSurvivesFailure ==
    [][(/\ status = "prompt"
        /\ \/ result'.res # "Ok"
           \/ \E j \in DOMAIN log' : log'[j].op = "scan_error")
       => /\ status' = "prompt"
          /\ environment' = Globals
          /\ DOMAIN envs[Globals].values \subseteq DOMAIN envs'[Globals].values]_vars

\* the events of the last run that are a `return` statement raising its signal
Returns == {j \in DOMAIN log : log[j].op = "return"}

\* the call of a function or method at event k spans event j
Encloses(k, j) == log[k].op = "LoxFunction_call" /\ k - log[k].events <= j /\ j < k

\* C21: the Return signal of a `return` statement is consumed by the nearest
\* enclosing function call: between the statement and the end of that call
\* only blocks are left (each with the signal; an initializer then fetches
\* `this`), nothing else of the body runs, the call itself ends Ok; and no
\* run ends with Return as its error.
C21_ReturnConsumed ==
    /\ result.err # "Return"
    /\ \A j \in Returns :
          \E k \in DOMAIN log :
              /\ Encloses(k, j)
              /\ log[k].body = "Return"
              /\ log[k].outcome = "Ok"
              /\ \A m \in (j + 1)..(k - 1) :
                    \/ log[m].op = "execute_block" /\ log[m].outcome = "Return"
                    \/ log[m].op = "initializer_call" /\ m = k - 1

\* source 49: f returns 1 inside a call of g, which then returns 7; the
\* return of f is consumed by the call of f, not by that of g
C21_Witness ==
    /\ LastRun = 49
    /\ result.res = "Ok"
    /\ Printed = <<Number(1), Number(7), Number(9)>>
    /\ \E j \in Returns : \E k, k2 \in DOMAIN log :
          k < k2 /\ Encloses(k, j) /\ Encloses(k2, j) /\ Encloses(k2, k)

\* C22: scan_tokens returns for every source; what it returns ends with one
\* EOF token of empty lexeme and holds no other EOF; the cursor never passes
\* the end of the source, and every turn of the loop consumes a byte.
C22_ScanEndsWithEOF ==
    /\ [](/\ status # "crashed"
          /\ scanner.current <= Len(scanner.source)
          /\ status = "scanned" =>
                LET n == Len(scanner.tokens) IN
                /\ n >= 1
                /\ scanner.tokens[n].token_type = "EOF"
                /\ scanner.tokens[n].lexeme = ""
                /\ \A j \in 1..(n - 1) : scanner.tokens[j].token_type # "EOF")
    /\ [][status' # "scanned" => scanner'.current > scanner.current]_vars

\* the same without the demand that scan_tokens returns
ScanInBounds ==
    /\ [](/\ scanner.current <= Len(scanner.source)
          /\ status = "scanned" =>
                LET n == Len(scanner.tokens) IN
                /\ n >= 1
                /\ scanner.tokens[n].token_type = "EOF"
                /\ scanner.tokens[n].lexeme = ""
                /\ \A j \in 1..(n - 1) : scanner.tokens[j].token_type # "EOF")
    /\ [][status' # "scanned" => scanner'.current > scanner.current]_vars

\* the calls of declaration the parser has made
Declarations == {j \in DOMAIN parser.log : parser.log[j].op = "declaration"}

\* C30: on tokens ending in one EOF the cursor stays between 0 and the
\* index of EOF, previous() is not evaluated with the cursor at 0, every
\* call of declaration consumes a token or returns an error, and parse
\* comes to an end (neither a panic nor a recursion without end).
C30_ParseStaysInBoundsAndEnds ==
    /\ [](/\ parser.current \in 0..(Len(parser.tokens) - 1)
          /\ status # "crashed"
          /\ \A j \in Declarations :
                parser.log[j].to > parser.log[j].from \/ parser.log[j].res = "Err")
    /\ [][status' = "parsing" => parser'.current > parser.current]_vars

\* the same without the demand that parse comes to an end
ParseInBounds ==
    /\ [](/\ parser.current \in 0..(Len(parser.tokens) - 1)
          /\ parser.res = "Panic" => parser.err = "stack overflow"
          /\ \A j \in Declarations :
                parser.log[j].to > parser.log[j].from \/ parser.log[j].res = "Err")
    /\ [][status' = "parsing" => parser'.current > parser.current]_vars

\* the `=` the parser has met after a parsed target and value
Assignments == {j \in DOMAIN parser.log : parser.log[j].op = "assignment"}

Lexemes == [j \in DOMAIN parser.tokens |-> parser.tokens[j].lexeme]

\* C23: `target = value` parses to Assign of the variable's name when the
\* target is a Variable, to Set on the same object and name when it is a
\* Get, and is otherwise the error InvalidAssignment at the `=` token;
\* `a = b = c` parses as `a = (b = c)`.
C23_AssignmentTargets ==
    /\ \A j \in Assignments :
          LET ev == parser.log[j] IN
          /\ ev.equals.token_type = "Equal"
          /\ ev.target.k = "Variable" =>
                /\ ev.res = "Ok"
                /\ ev.val.k = "Assign"
                /\ ev.val.name = ev.target.name
                /\ ev.val.value = ev.value
          /\ ev.target.k = "Get" =>
                /\ ev.res = "Ok"
                /\ ev.val.k = "Set"
                /\ ev.val.object = ev.target.object
                /\ ev.val.name = ev.target.name
                /\ ev.val.value = ev.value
          /\ ev.target.k \notin {"Variable", "Get"} =>
                /\ ev.res = "Err"
                /\ ev.err = "InvalidAssignment"
                /\ ev.at = <<ev.equals>>
    /\ (status = "parsed" /\ Lexemes = <<"a", "=", "b", "=", "c", ";", "">>) =>
          /\ Len(parser.val) = 1
          /\ parser.val[1].k = "Expression"
          /\ parser.val[1].expr.k = "Assign"
          /\ parser.val[1].expr.name.lexeme = "a"
          /\ parser.val[1].expr.value.k = "Assign"
          /\ parser.val[1].expr.value.name.lexeme = "b"
          /\ parser.val[1].expr.value.value.k = "Variable"
          /\ parser.val[1].expr.value.value.name.lexeme = "c"

\* `a.b.c = d = 2;` is parsed: a Set whose value is an Assign
C23_Witness ==
    /\ status = "parsed"
    /\ Lexemes = <<"a", ".", "b", ".", "c", "=", "d", "=", "2", ";", "">>
    /\ parser.val[1].expr.k = "Set"
    /\ parser.val[1].expr.object.k = "Get"
    /\ parser.val[1].expr.value.k = "Assign"
    /\ Cardinality(Assignments) = 2

\* the parameters or arguments of the one list of a text of LongTexts: one
\* more than its commas
Listed == Cardinality({j \in DOMAIN parser.tokens : parser.tokens[j].token_type = "Comma"}) + 1

TooManyRaised == {j \in DOMAIN parser.log : parser.log[j].op = "MaxArgs"}

\* C24: a declaration with MaxArgs (255) or more parameters and a call with
\* MaxArgs or more arguments end with the parse error MaxArgs, raised with
\* the next parameter or argument not consumed; with fewer they are parsed.
C24_ArgumentLimit ==
    /\ (Listed >= MaxArgs /\ status # "parsing") =>
          /\ status = "failed"
          /\ parser.err = "MaxArgs"
    /\ (Listed = MaxArgs - 1 /\ status # "parsing") => status = "parsed"
    /\ \A j \in TooManyRaised :
          parser.tokens[parser.log[j].current + 1].token_type \in {"Identifier", "Number"}

\* the limit the code applies: more than MaxArgs
ArgumentLimitApplied ==
    /\ (Listed > MaxArgs /\ status # "parsing") =>
          /\ status = "failed"
          /\ parser.err = "MaxArgs"
    /\ (Listed \in {MaxArgs - 1, MaxArgs} /\ status # "parsing") => status = "parsed"
    /\ \A j \in TooManyRaised :
          /\ parser.log[j].count = MaxArgs
          /\ parser.tokens[parser.log[j].current].token_type = "Comma"
          /\ parser.tokens[parser.log[j].current + 1].token_type \in {"Identifier", "Number"}

\* ---- class and function context of the resolver ----

\* the class declarations around a visit, outermost first
Classes(nesting) == SelectSeq(nesting, LAMBDA x : x \in {"Class", "SubClass"})

\* the visits of `this`, of `super` and of `return` in the last run
Visits(op) == {j \in DOMAIN log : log[j].op = op}

\* C25: `this` is rejected exactly outside every class body, `super` exactly
\* outside every class or where the innermost enclosing class has no
\* superclass, and at each such visit the class context is that of the
\* innermost enclosing class declaration (None outside all of them).
C25_ClassContext ==
    /\ \A j \in Visits("visit_this_expr") :
          log[j].outcome = "ThisOutsideClass" <=> Classes(log[j].nesting) = <<>>
    /\ \A j \in Visits("visit_super_expr") :
          /\ log[j].outcome = "SuperOutsideClass" <=> Classes(log[j].nesting) = <<>>
          /\ log[j].outcome = "SuperNoSubClass" <=>
                /\ Classes(log[j].nesting) # <<>>
                /\ Classes(log[j].nesting)[Len(Classes(log[j].nesting))] = "Class"
          /\ log[j].outcome \in {"Ok", "SuperOutsideClass", "SuperNoSubClass"}
    /\ \A j \in Visits("visit_this_expr") \cup Visits("visit_super_expr") :
          log[j].current_class =
              IF Classes(log[j].nesting) = <<>> THEN "None"
              ELSE Classes(log[j].nesting)[Len(Classes(log[j].nesting))]

\* source 55: `super` in a method of A, which has no superclass, after the
\* nested subclass E ended: rejected; source 54: `this` in the nested class D
\* and then `super` in the enclosing subclass B: both accepted
C25_Witness ==
    \/ /\ LastRun = 55
       /\ result.err = "SuperNoSubClass"
       /\ \E j \in Visits("visit_super_expr") : log[j].nesting = <<"Class", "fn">>
    \/ /\ LastRun = 54
       /\ result.res = "Ok"
       /\ \E j \in Visits("visit_this_expr"), k \in Visits("visit_super_expr") :
             /\ j < k
             /\ Classes(log[j].nesting) = <<"SubClass", "Class">>
             /\ Classes(log[k].nesting) = <<"SubClass">>

\* C26: `return` is rejected as BadReturn exactly outside every function and
\* method, the function context at each `return` being None exactly there: a
\* top-level `return` after declarations is rejected, `return <value>` in a
\* plain function nested inside an initializer is accepted.
C26_ReturnContext ==
    /\ \A j \in Visits("visit_return_stmt") :
          /\ log[j].outcome = "BadReturn" <=> \A i \in DOMAIN log[j].nesting : log[j].nesting[i] # "fn"
          /\ log[j].current_fn = "None" <=> \A i \in DOMAIN log[j].nesting : log[j].nesting[i] # "fn"
    /\ LastRun \in {60, 61, 64} => result.err = "BadReturn"
    /\ LastRun \in {62, 63, 65} => result.res = "Ok"

\* source 60: `return 2;` at top level after the declaration of f;
\* source 62: `return 1;` in g inside the initializer of A
C26_Witness ==
    \/ /\ LastRun = 60
       /\ result.err = "BadReturn"
       /\ \E j, k \in Visits("visit_return_stmt") :
             j < k /\ log[j].nesting = <<"fn">> /\ log[j].outcome = "Ok" /\ log[k].nesting = <<>>
    \/ /\ LastRun = 62
       /\ result.res = "Ok"
       /\ \E j \in Visits("visit_return_stmt") :
             log[j].nesting = <<"Class", "fn", "fn">> /\ log[j].current_fn = "Function"

\* ---- declarations in one scope ----

Declares == {j \in DOMAIN log : log[j].op = "declare"}

\* the declarations at i and at j > i are made in the same local scope: as
\* many scopes are open and the innermost one did not end in between
SameScope(i, j) ==
    /\ i < j
    /\ log[i].depth = log[j].depth
    /\ log[j].depth > 0
    /\ \A m \in i..j : ~(log[m].op = "end_scope" /\ log[m].depth = log[j].depth)

\* C27: a declaration (variable, function, class, parameter) is a static
\* error exactly when the same name was declared before in the same local
\* scope; at global scope, and in a block nested in the scope of the earlier
\* declaration, it is accepted; parameters and the top level of the body of a
\* function are one scope.
C27_Redeclaration ==
    /\ \A j \in Declares :
          log[j].outcome = "DoubleVariable" <=>
              \E i \in Declares : SameScope(i, j) /\ log[i].name = log[j].name
    /\ LastRun \in {66, 68, 69, 71, 72, 73} => result.err = "DoubleVariable"
    /\ LastRun \in {67, 70, 74, 75} => result.res = "Ok"

\* source 68: the parameter a and `var a` in the body of f are one scope;
\* source 70: `var a` in a block nested in the block of the first `var a`
C27_Witness ==
    \/ /\ LastRun = 68
       /\ result.err = "DoubleVariable"
       /\ \E i, j \in Declares : SameScope(i, j) /\ log[i].name = "a" /\ log[j].name = "a"
    \/ /\ LastRun = 70
       /\ result.res = "Ok"
       /\ \E i, j \in Declares :
             i < j /\ log[i].name = "a" /\ log[j].name = "a" /\ log[i].depth = 1 /\ log[j].depth = 2

\* ---- the superclass chain ----

\* the chain of superclasses of class c, c first (as find_method walks it)
RECURSIVE Chain(_, _)
Chain(cs, c) == IF c = 0 THEN <<>> ELSE <<c>> \o Chain(cs, cs[c].superclass)

\* C29: the superclass of every class value on the heap is a class value
\* created before it (or none), so every superclass chain is finite and
\* without repetition, and find_method and arity end on every class.
C29_SuperclassChainAcyclic ==
    \A c \in DOMAIN classes :
        /\ classes[c].superclass \in 0..(c - 1)
        /\ Len(Chain(classes, c)) <= c
        /\ \A i, j \in DOMAIN Chain(classes, c) :
              i # j => Chain(classes, c)[i] # Chain(classes, c)[j]
        /\ find_method(classes, c, "no such method").found = FALSE
        /\ Class_arity(classes, c) \in Nat

\* a chain of three classes, and a class whose superclass has its own name
\* (an earlier class value of that name)
C29_Witness ==
    \/ \E c \in DOMAIN classes : Len(Chain(classes, c)) >= 3
    \/ \E c \in DOMAIN classes :
          /\ classes[c].superclass # 0
          /\ classes[classes[c].superclass].name = classes[c].name

\* ---- recovery after a parse error ----

\* the calls of declaration that ended with an error, innermost first
Failures == {j \in Declarations : parser.log[j].res = "Err"}

StatementStart == {"Class", "Fun", "Var", "For", "If", "While", "Print", "Return"}

\* the token types before and at the cursor c
TypeBefore(c) == IF c = 0 THEN "none" ELSE parser.tokens[c].token_type
TypeAt(c) == parser.tokens[c + 1].token_type

\* C28: after a parse error synchronize leaves the cursor at EOF, right
\* after a `;` or on a token that starts a statement, at least one token
\* past the place of the error unless that was EOF; parse then returns the
\* first error, not a list of statements, and takes no further turn.
C28_SynchronizeThenFail ==
    /\ \A j \in Failures :
          /\ \/ TypeAt(parser.log[j].after) = "EOF"
             \/ TypeBefore(parser.log[j].after) = "Semicolon"
             \/ TypeAt(parser.log[j].after) \in StatementStart
          /\ \/ parser.log[j].after > parser.log[j].to
             \/ parser.log[j].after = parser.log[j].to /\ TypeAt(parser.log[j].to) = "EOF"
    /\ Failures # {} <=> status = "failed"
    /\ status = "failed" =>
          /\ parser.res = "Err"
          /\ parser.err = parser.log[Min(Failures)].err
          /\ ~ENABLED ParseNext

\* an error inside a block: the inner declaration stops right after a `;`
\* or on a keyword having skipped more than one token, the outer one
\* synchronizes once more, and parse has failed with the first error
C28_Witness ==
    /\ status = "failed"
    /\ \E i, j \in Failures :
          /\ i < j
          /\ parser.log[i].after > parser.log[i].to + 1
          /\ TypeAt(parser.log[i].after) # "EOF"
          /\ parser.log[j].to = parser.log[i].after
          /\ parser.log[j].after > parser.log[j].to
          /\ TypeAt(parser.log[j].after) \in StatementStart

====
